---- MODULE Spec2Model ----
(***************************************************************************)
(* Model of the logistics dashboard front-end: the route table and its     *)
(* role guard, the "programar salida" form, and the GPS device screen.     *)
(* Each screen is a state machine over its React state; one action is one  *)
(* handler invocation or one continuation of an async handler after an     *)
(* awaited response.                                                       *)
(***************************************************************************)
EXTENDS Integers, Sequences, FiniteSets, TLC

\* ------------------------------------------------------------------------
\* Generic values
\* ------------------------------------------------------------------------

\* JavaScript null / undefined (distinct from every string and number used).
Null == "<null>"
Undefined == "<undefined>"

\* ------------------------------------------------------------------------
\* State
\* ------------------------------------------------------------------------

\* Routing: the auth context, the current path, what the matched route
\* renders, what a conductor has been shown, redirects followed in a row,
\* and the calls the last sidebar click made, in order.
VARIABLES auth, location, view, shown, redirects, navCalls

routeVars == <<auth, location, view, shown, redirects, navCalls>>

\* ProgramarSalida: the component's state (useState), the token and user id
\* it reads from the auth hooks, the live list and availability requests of
\* its effects, the suspended guardarProgramacion call, and the backend's
\* programaciones.
VARIABLES psToken, psUserId, fechaEntrega, vehiculoId, conductorId, vehiculos, conductores,
          pedidos, pedidosPage, pedidosSize, pedidosTotalPages, pedidosTotalElements,
          isLoadingPedidos, pedidosError, esUltimaPaginaPedidos,
          psIsSubmitting, psSubmitError, psSubmitSuccess,
          psFetch, psDisponibles, psCall, psBackend, psRequests

psFormVars == <<psToken, psUserId, fechaEntrega, vehiculoId, conductorId, vehiculos, conductores>>
psListVars == <<pedidos, pedidosPage, pedidosSize, pedidosTotalPages, pedidosTotalElements,
                isLoadingPedidos, pedidosError, esUltimaPaginaPedidos, psFetch>>
psSubmitVars == <<psIsSubmitting, psSubmitError, psSubmitSuccess, psCall, psBackend, psRequests>>
psVars == <<psFormVars, psDisponibles, psListVars, psSubmitVars>>

\* Dispositivos: the component's state, the token it reads, the live list
\* request of its effect, the suspended handleGuardarNuevo call (with the
\* record of its last run), the suspended handleEliminarDispositivo calls,
\* Traccar's devices, the backend's devices, and the requests sent.
VARIABLES dvToken, query, searchTerm, reloadKey, dispositivos, selectedDispositivo, dvLoading,
          dvError, page, size, totalElements, totalPages, isFirstPage, isLastPage, dvFetch,
          nuevoCodigo, nuevoModelo,
          dvIsSubmitting, dvSubmitError, dvSubmitSuccess, dvCall,
          deletingId, deleteFeedback, dvDeletes,
          traccar, dvBackend, dvRequests

dvListVars == <<dvToken, query, searchTerm, reloadKey, dispositivos, selectedDispositivo, dvLoading,
                dvError, page, size, totalElements, totalPages, isFirstPage, isLastPage, dvFetch>>
dvFormVars == <<nuevoCodigo, nuevoModelo>>
dvSubmitVars == <<dvIsSubmitting, dvSubmitError, dvSubmitSuccess, dvCall>>
dvDeleteVars == <<deletingId, deleteFeedback, dvDeletes>>
dvServers == <<traccar, dvBackend>>
dvVars == <<dvListVars, dvFormVars, dvSubmitVars, dvDeleteVars, dvServers, dvRequests>>

\* PanelMonitoreo: the token it reads, the search form and the committed
\* search, the list and its flags, the edit form, the delete flag, the live
\* list request of its effect, the suspended handleEditSubmit call, the
\* suspended handleDelete calls, how the last handleDelete call that
\* finished ended, and the backend's programaciones.
VARIABLES pmToken, nro, pmDesde, pmHasta, searchParams, items, pmLoading, pmError,
          editingProgramacion, editFecha, editSubmitting, deleteInProgress, mutationError,
          actionStatus, pmFetch, pmEdit, pmDeletes, pmDeleteDone, pmBackend

pmSearchVars == <<pmToken, nro, pmDesde, pmHasta, searchParams>>
pmListVars == <<items, pmLoading, pmError, pmFetch>>
pmEditVars == <<editingProgramacion, editFecha, editSubmitting, mutationError, pmEdit>>
pmDeleteVars == <<deleteInProgress, pmDeletes, pmDeleteDone>>
pmVars == <<pmSearchVars, pmListVars, pmEditVars, pmDeleteVars, actionStatus, pmBackend>>

\* EntregaObservacion: the driver id and the salida-detalle id the mounted
\* instance reads, its state (useState), whether the screen is mounted and
\* how many times it has been, the suspended onSubmit calls, and what the
\* last navigate(-1) came from.
VARIABLES eoConductorId, salidaDetalleId, observacion, eoEstado, isSubmitting,
          eoMounted, eoInstance, eoCalls, eoNavigated

eoVars == <<eoConductorId, salidaDetalleId, observacion, eoEstado, isSubmitting,
            eoMounted, eoInstance, eoCalls, eoNavigated>>

\* Reportes: the token, the four filters, the loaded programaciones, the
\* loading flag and the error of the report, the suspended fetchReport
\* calls, reportControllerRef (the number of the call whose controller it
\* holds, 0 for null), initialFetchDoneRef, the number of calls made, and
\* what the last fetchReport call did before it returned or awaited.
VARIABLES rpToken, rpEstado, rpDesde, rpHasta, rpConductor, programaciones,
          isLoadingReport, reportError, rpCalls, reportControllerRef,
          initialFetchDoneRef, rpCallCount, rpLastCall

rpFilterVars == <<rpEstado, rpDesde, rpHasta, rpConductor>>
rpReportVars == <<programaciones, isLoadingReport, reportError>>
rpCallVars == <<rpCalls, reportControllerRef, rpCallCount, rpLastCall>>
rpVars == <<rpToken, rpFilterVars, rpReportVars, rpCallVars, initialFetchDoneRef>>

\* The percentages of the report: the statusTotals they are computed from
\* and the two numbers shown, once computed.
VARIABLES pcTotals, pcShown

pcVars == <<pcTotals, pcShown>>

\* The programaciones whose status the monitoring panel and the report
\* display: for each the estadoEntrega the backend holds and, when it was
\* written through the observation form, the status chosen there; and what
\* the two screens display for them, once rendered.
VARIABLES esRows, esShown

esVars == <<esRows, esShown>>

vars == <<routeVars, psVars, dvVars, pmVars, eoVars, rpVars, pcVars, esVars>>

\* The percentages before charts is computed.
NoPorcentajes == [pending |-> TRUE]

\* What the actions of each screen leave alone.
notRoute == <<psVars, dvVars, pmVars, eoVars, rpVars, pcVars, esVars>>
notProg == <<routeVars, dvVars, pmVars, eoVars, rpVars, pcVars, esVars>>
notDisp == <<routeVars, psVars, pmVars, eoVars, rpVars, pcVars, esVars>>
notPanel == <<routeVars, psVars, dvVars, eoVars, rpVars, pcVars, esVars>>
notObs == <<routeVars, psVars, dvVars, pmVars, rpVars, pcVars, esVars>>
notPct == <<routeVars, psVars, dvVars, pmVars, eoVars, rpVars, esVars>>
notEst == <<routeVars, psVars, dvVars, pmVars, eoVars, rpVars, pcVars>>
notRep == <<routeVars, psVars, dvVars, pmVars, eoVars, pcVars, esVars>>

\* ------------------------------------------------------------------------
\* JavaScript values carried in requests and responses. Strings are
\* sequences of one-character strings so that trim(), String() and Number()
\* are computed, not assumed.
\* ------------------------------------------------------------------------

JsNull == [t |-> "null"]
JsUndef == [t |-> "undefined"]
NaN == [t |-> "nan"]
Num(n) == [t |-> "num", v |-> n]
Str(chars) == [t |-> "str", v |-> chars]
Obj(fields) == [t |-> "obj", v |-> fields]
Arr(elements) == [t |-> "arr", v |-> elements]
Bool(b) == [t |-> "bool", v |-> b]

DigitChars == <<"0", "1", "2", "3", "4", "5", "6", "7", "8", "9">>
isDigit(c) == \E d \in 1..10 : DigitChars[d] = c
digitValue(c) == (CHOOSE d \in 1..10 : DigitChars[d] = c) - 1
isSpace(c) == c = " "

\* String.prototype.trim
RECURSIVE trimStart(_)
trimStart(cs) ==
  IF cs # <<>> /\ isSpace(Head(cs)) THEN trimStart(Tail(cs)) ELSE cs
RECURSIVE trimEnd(_)
trimEnd(cs) ==
  IF cs # <<>> /\ isSpace(cs[Len(cs)]) THEN trimEnd(SubSeq(cs, 1, Len(cs) - 1)) ELSE cs
trim(cs) == trimEnd(trimStart(cs))

\* Decimal digits of a natural number (Number.prototype.toString).
RECURSIVE natToChars(_)
natToChars(n) ==
  IF n < 10 THEN <<DigitChars[n + 1]>>
  ELSE natToChars(n \div 10) \o <<DigitChars[(n % 10) + 1]>>

\* String(value), for the values that reach it here.
String(value) ==
  CASE value.t = "str" -> value.v
    [] value.t = "num" -> natToChars(value.v)
    [] value.t = "null" -> <<"n", "u", "l", "l">>
    [] value.t = "undefined" -> <<"u", "n", "d", "e", "f", "i", "n", "e", "d">>
    [] OTHER -> <<"N", "a", "N">>

RECURSIVE digitsToNat(_, _)
digitsToNat(cs, acc) ==
  IF cs = <<>> THEN acc ELSE digitsToNat(Tail(cs), acc * 10 + digitValue(Head(cs)))

\* Number(string): surrounding whitespace is ignored, the empty string is 0,
\* a run of decimal digits is its value, anything else over this alphabet is
\* NaN.
Number(chars) ==
  LET body == trim(chars) IN
  IF body = <<>> THEN Num(0)
  ELSE IF \A i \in 1..Len(body) : isDigit(body[i]) THEN Num(digitsToNat(body, 0))
  ELSE NaN

\* Boolean(value) / !value
truthy(value) ==
  CASE value.t \in {"null", "undefined", "nan"} -> FALSE
    [] value.t = "num" -> value.v # 0
    [] value.t = "str" -> value.v # <<>>
    [] value.t = "bool" -> value.v
    [] OTHER -> TRUE

\* value ?? fallback
orElse(value, fallback) == IF value.t \in {"null", "undefined"} THEN fallback ELSE value

\* record.field of a JSON object; undefined when the field is absent.
field(object, name) == IF name \in DOMAIN object.v THEN object.v[name] ELSE JsUndef

\* encodeURIComponent(value): the text put into the URL. The characters in
\* use other than the space are unreserved and are kept as they are.
RECURSIVE encodeChars(_)
encodeChars(cs) ==
  IF cs = <<>> THEN <<>>
  ELSE (IF Head(cs) = " " THEN <<"%", "2", "0">> ELSE <<Head(cs)>>) \o encodeChars(Tail(cs))
encodeURIComponent(value) == encodeChars(String(value))

\* ------------------------------------------------------------------------
\* Routing: RoleProtectedRoute.tsx and the route table
\* ------------------------------------------------------------------------

\* Redirects followed in a row before the model stops counting.
MaxRedirects == 3


\* The values auth.roleName takes: the two known roles, no role, and a role
\* string that ROLE_DEFAULT_PATH does not list.
RoleNames == {"administrador", "conductor", Null, "otro"}

\* type AllowedRole
AllowedRole == {"administrador", "conductor"}

\* ROLE_DEFAULT_PATH with the two paths exchanged (mutant).
ROLE_DEFAULT_PATH_Swapped(role) ==
  CASE role = "administrador" -> <<"menu", "entregas">>
    [] role = "conductor" -> <<"menu", "reportes">>
    [] OTHER -> Undefined

\* const ROLE_DEFAULT_PATH; Undefined for a key it does not have.
ROLE_DEFAULT_PATH(role) ==
  CASE role = "administrador" -> <<"menu", "reportes">>
    [] role = "conductor" -> <<"menu", "entregas">>
    [] OTHER -> Undefined

\* The three things a route element can produce.
SessionClosedMessage == [kind |-> "session_closed"]
NavigateTo(path) == [kind |-> "redirect", to |-> path]
Page(name) == [kind |-> "page", page |-> name]

\* RoleProtectedRoute without the test of the role (mutant).
RoleProtectedRoute_NoRoleCheck(a, allowedRoles, children) ==
  IF ~a.isAuthenticated THEN SessionClosedMessage
  ELSE children

\* RoleProtectedRoute that sends everybody to the administrator's page (mutant).
RoleProtectedRoute_AdminFallback(a, allowedRoles, children) ==
  IF ~a.isAuthenticated THEN SessionClosedMessage
  ELSE IF allowedRoles # {} /\ (a.roleName = Null \/ a.roleName \notin allowedRoles)
       THEN NavigateTo(<<"menu", "reportes">>)
       ELSE children

\* const RoleProtectedRoute = ({ allowedRoles, children }) => ...
RoleProtectedRoute(a, allowedRoles, children) ==
  IF ~a.isAuthenticated THEN SessionClosedMessage
  ELSE LET role == a.roleName IN
       IF allowedRoles # {} /\ (role = Null \/ role \notin allowedRoles)
       THEN LET fallback == IF role # Null
                            THEN (IF ROLE_DEFAULT_PATH(role) # Undefined
                                  THEN ROLE_DEFAULT_PATH(role) ELSE <<"inicio">>)
                            ELSE <<"inicio">>
            IN NavigateTo(fallback)
       ELSE children

\* A route element: a bare page, a page behind withRoleGuard, or <Navigate>.
Bare(path, name) == [path |-> path, el |-> "bare", page |-> name, roles |-> {}, to |-> Null]
Guarded(path, name, roles) == [path |-> path, el |-> "guard", page |-> name, roles |-> roles, to |-> Null]
Redirecting(path, to) == [path |-> path, el |-> "navigate", page |-> Null, roles |-> {}, to |-> to]

\* const Router = [...] (both layouts' children, in order)
Router ==
  << Bare(<<>>, "Welcome"),
     Bare(<<"auth", "login">>, "Login"),
     Bare(<<"auth", "register">>, "Register"),
     Bare(<<"404">>, "Error"),
     Bare(<<"auth", "404">>, "Error"),
     Bare(<<"inicio">>, "Home"),
     Bare(<<"ui", "typography">>, "Typography"),
     Bare(<<"ui", "table">>, "Table"),
     Bare(<<"ui", "form">>, "Form"),
     Bare(<<"ui", "alert">>, "Alert"),
     Bare(<<"ui", "buttons">>, "Buttons"),
     Bare(<<"icons", "solar">>, "Solar"),
     Guarded(<<"menu", "vehiculos">>, "Vehiculos", {"administrador"}),
     Guarded(<<"menu", "vehiculos", "nuevo">>, "VehiculoForm", {"administrador"}),
     Guarded(<<"menu", "dispositivos">>, "Dispositivos", {"administrador"}),
     Guarded(<<"menu", "conductores">>, "Conductores", {"administrador"}),
     Guarded(<<"menu", "entregas">>, "Entregas", {"administrador", "conductor"}),
     Guarded(<<"menu", "entregas", ":id", "salidas">>, "ProgramacionSalidas", {"administrador", "conductor"}),
     Guarded(<<"menu", "entregas", ":id">>, "EntregaDetalle", {"administrador", "conductor"}),
     Guarded(<<"menu", "entregas", ":id", "observacion", ":productoId">>, "EntregaObservacion", {"administrador", "conductor"}),
     Guarded(<<"menu", "programar-salida">>, "ProgramarSalida", {"administrador"}),
     Guarded(<<"menu", "panel-monitoreo">>, "PanelMonitoreo", {"administrador"}),
     Guarded(<<"menu", "panel-monitoreo", "salidas", ":id">>, "SalidaDetalle", {"administrador"}),
     Guarded(<<"menu", "panel-monitoreo", "salidas", ":id", "recorrido">>, "RecorridoMapa", {"administrador"}),
     Guarded(<<"menu", "panel-monitoreo", "salidas", ":id", "detalle", ":notaId">>, "NotaSalidaDetalle", {"administrador"}),
     Bare(<<"menu", "perfil">>, "Perfil"),
     Guarded(<<"menu", "reportes">>, "Reportes", {"administrador"}),
     Bare(<<"sample-page">>, "SamplePage"),
     Redirecting(<<"*">>, <<"auth", "404">>) >>

\* Paths are sequences of segments: '/menu/entregas/:id' is
\* <<"menu", "entregas", ":id">>; a pattern stands for its instances.
\* A path the table does not list (it falls to the '*' route).
UnknownPath == <<"no-such-page">>

Paths == {Router[i].path : i \in 1..Len(Router)} \ {<<"*">>}

\* createBrowserRouter(Router): the route a path resolves to, the '*' route
\* when no other route has that path.
matchRoute(path) ==
  IF \E i \in 1..Len(Router) : Router[i].path = path /\ Router[i].path # <<"*">>
  THEN Router[CHOOSE i \in 1..Len(Router) : Router[i].path = path /\ Router[i].path # <<"*">>]
  ELSE Router[CHOOSE i \in 1..Len(Router) : Router[i].path = <<"*">>]

\* const withRoleGuard = (element, roles) => <RoleProtectedRoute ...>
withRoleGuard(a, element, roles) == RoleProtectedRoute(a, roles, element)

\* What the matched route's element renders for the current auth state.
renderRoute(a, path) ==
  LET r == matchRoute(path) IN
  CASE r.el = "bare" -> Page(r.page)
    [] r.el = "guard" -> withRoleGuard(a, Page(r.page), r.roles)
    [] OTHER -> NavigateTo(r.to)

\* The auth states: not authenticated, or authenticated with some roleName.
AuthStates ==
  {[isAuthenticated |-> FALSE, roleName |-> Null]}
    \cup {[isAuthenticated |-> TRUE, roleName |-> r] : r \in RoleNames}

\* History of what a conductor was shown: for every page rendered while the
\* user is an authenticated conductor, the kind of route element that
\* rendered it and that route's allowedRoles.
shownAfter(a, path, v, old) ==
  IF a.isAuthenticated /\ a.roleName = "conductor" /\ v.kind = "page"
  THEN old \cup {[el |-> matchRoute(path).el, roles |-> matchRoute(path).roles]}
  ELSE old

RouteInit ==
  /\ auth \in AuthStates
  /\ location = <<>>
  /\ view = renderRoute(auth, <<>>)
  /\ shown = shownAfter(auth, <<>>, view, {})
  /\ redirects = 0
  /\ navCalls = <<>>

\* The user opens a path (a link, the address bar).
GoTo(path) ==
  /\ UNCHANGED notRoute
  /\ location' = path
  /\ view' = renderRoute(auth, path)
  /\ shown' = shownAfter(auth, path, view', shown)
  /\ redirects' = 0
  /\ UNCHANGED <<auth, navCalls>>

\* <Navigate to=... replace />: the router follows a rendered redirect.
FollowRedirect ==
  /\ UNCHANGED notRoute
  /\ view.kind = "redirect"
  /\ redirects < MaxRedirects
  /\ location' = view.to
  /\ view' = renderRoute(auth, view.to)
  /\ shown' = shownAfter(auth, view.to, view', shown)
  /\ redirects' = redirects + 1
  /\ UNCHANGED <<auth, navCalls>>

\* The url of the sidebar item that logs out.
LoginUrl == <<"auth", "login">>

\* NavItems.handleClick that calls clearAuth for every item (mutant).
handleClick_AlwaysClears(url) ==
  <<"preventDefault", "clearAuth", "window.open", "alert", "window.close">>

\* NavItems.handleClick: the calls it makes, in order, for the item's url.
handleClick(url) ==
  IF url = LoginUrl
  THEN <<"preventDefault", "clearAuth", "window.open", "alert", "window.close">>
  ELSE <<>>

\* Whether a handler made the call.
called(calls, name) == \E i \in 1..Len(calls) : calls[i] = name

\* useAuth().clearAuth: the auth context after it.
clearAuth == [isAuthenticated |-> FALSE, roleName |-> Null]

\* <Link to={item.url} onClick={handleClick}>: a click on a sidebar item.
\* The handler runs, then the link navigates unless the handler prevented
\* it; the route on display re-renders with the auth context that results.
ClickNavItem(url) ==
  /\ UNCHANGED notRoute
  /\ navCalls' = handleClick(url)
  /\ auth' = IF called(navCalls', "clearAuth") THEN clearAuth ELSE auth
  /\ location' = IF called(navCalls', "preventDefault") THEN location ELSE url
  /\ view' = renderRoute(auth', location')
  /\ shown' = shownAfter(auth', location', view', shown)
  /\ redirects' = IF called(navCalls', "preventDefault") THEN redirects ELSE 0

\* The click on the item whose url is '/auth/login'.
ClickLogout == ClickNavItem(LoginUrl)

\* The login page signs a user in: the auth context becomes authenticated
\* with the role of the account, and the page on display re-renders.
Authenticate(role) ==
  /\ UNCHANGED notRoute
  /\ ~auth.isAuthenticated
  /\ location = LoginUrl
  /\ auth' = [isAuthenticated |-> TRUE, roleName |-> role]
  /\ view' = renderRoute(auth', location)
  /\ shown' = shownAfter(auth', location, view', shown)
  /\ UNCHANGED <<location, redirects, navCalls>>

RouteNext ==
  \/ \E path \in Paths \cup {UnknownPath} : GoTo(path)
  \/ FollowRedirect
  \/ \E url \in Paths : ClickNavItem(url)
  \/ \E role \in RoleNames : Authenticate(role)

\* ------------------------------------------------------------------------
\* Claims about routing
\* ------------------------------------------------------------------------

\* Whether the guard admits auth state a for allowedRoles.
admitted(a, allowedRoles) ==
  a.isAuthenticated /\ (allowedRoles = {} \/ a.roleName \in allowedRoles)

\* C1: RoleProtectedRoute renders its child exactly when the user is
\* authenticated and allowedRoles is empty or contains auth.roleName; an
\* unauthenticated visitor gets the 'Sesion finalizada' message and an
\* authenticated user who is not admitted gets a redirect. Stated of the
\* route being displayed and of every allowedRoles the guard can be given.
C1_GuardAdmitsOnlyAllowed ==
  /\ matchRoute(location).el = "guard" =>
       /\ (view.kind = "page") <=> admitted(auth, matchRoute(location).roles)
       /\ ~auth.isAuthenticated => view = SessionClosedMessage
       /\ (auth.isAuthenticated /\ ~admitted(auth, matchRoute(location).roles))
            => view.kind = "redirect"
  /\ \A allowedRoles \in SUBSET AllowedRole :
       LET out == RoleProtectedRoute(auth, allowedRoles, Page("child")) IN
       /\ (out = Page("child")) <=> admitted(auth, allowedRoles)
       /\ ~auth.isAuthenticated => out = SessionClosedMessage
       /\ (auth.isAuthenticated /\ ~admitted(auth, allowedRoles)) => out.kind = "redirect"

\* C1 witness: an authenticated user whose role is outside allowedRoles is
\* on a guarded route and sees a redirect instead of the page.
C1_Witness ==
  /\ location = <<"menu", "dispositivos">>
  /\ auth.isAuthenticated /\ auth.roleName = "otro"
  /\ view.kind = "redirect"

\* The routes the claim lists as declared with allowedRoles = ['administrador'].
AdminOnlyPaths ==
  { <<"menu", "vehiculos">>, <<"menu", "vehiculos", "nuevo">>, <<"menu", "dispositivos">>,
    <<"menu", "conductores">>, <<"menu", "programar-salida">>, <<"menu", "panel-monitoreo">>,
    <<"menu", "panel-monitoreo", "salidas", ":id">>,
    <<"menu", "panel-monitoreo", "salidas", ":id", "recorrido">>,
    <<"menu", "panel-monitoreo", "salidas", ":id", "detalle", ":notaId">>,
    <<"menu", "reportes">> }

\* C2: the routes declared with allowedRoles = ['administrador'] are the
\* listed ones; on such a route a conductor is never shown the page and is
\* redirected to /menu/entregas while an administrador gets the page; and
\* everything a conductor has been shown so far is an unguarded page or a
\* page whose allowedRoles contain 'conductor'.
C2_ConductorNeverSeesAdminPages ==
  /\ {Router[i].path : i \in {j \in 1..Len(Router) :
         Router[j].el = "guard" /\ Router[j].roles = {"administrador"}}} = AdminOnlyPaths
  /\ (location \in AdminOnlyPaths /\ auth.isAuthenticated /\ auth.roleName = "conductor")
       => view = NavigateTo(<<"menu", "entregas">>)
  /\ (location \in AdminOnlyPaths /\ auth.isAuthenticated /\ auth.roleName = "administrador")
       => view = Page(matchRoute(location).page)
  /\ \A s \in shown : s.el = "bare" \/ "conductor" \in s.roles

\* C2 witness: a conductor who opened an administrador-only route has been
\* redirected and now sees the deliveries page.
C2_Witness ==
  /\ auth.isAuthenticated /\ auth.roleName = "conductor"
  /\ location = <<"menu", "entregas">>
  /\ redirects = 1
  /\ view = Page("Entregas")

\* Whether a path starts with '/menu/'.
isMenuPath(path) == Len(path) >= 2 /\ path[1] = "menu"

\* C3 (as claimed): every route whose path starts with '/menu/' is behind the
\* role guard, so an unauthenticated visitor is never shown its page.
C3_MenuRoutesGuarded ==
  isMenuPath(location) =>
    /\ matchRoute(location).el = "guard"
    /\ ~auth.isAuthenticated => view.kind # "page"


\* ------------------------------------------------------------------------
\* ProgramarSalida.tsx: data
\* ------------------------------------------------------------------------

\* Dates of the date input, in the order of their 'yyyy-MM-dd' strings; 0 is
\* the empty string of a cleared input.
MaxDate == 2
EmptyDate == 0
Dates == 1..MaxDate
\* const today = useMemo(() => formatAsInputDate(new Date()), [])
today == 2

\* Programaciones the backend accepts before it only rejects.
MaxProgramaciones == 1

\* const PEDIDOS_PAGE_SIZES = [5, 8, 10, 15]
PEDIDOS_PAGE_SIZES == <<5, 8, 10, 15>>

\* UbicacionClienteApi values the backend returns inside a nota.
UbicacionA == Obj([idUbicacionCliente |-> Num(11), nombreDireccion |-> Str(<<"a">>)])
UbicacionB == Obj([idUbicacionCliente |-> Num(12), nombreDireccion |-> Str(<<" ">>)])
UbicacionC == Obj([idUbicacionCliente |-> Num(21), nombreDireccion |-> Str(<<"c">>)])
UbicacionSinId == Obj([nombreDireccion |-> Str(<<"x">>)])

\* NotaSalidaApi values of the backend: one with two usable locations, a null
\* entry and an entry without id; one with a single location.
Nota1 ==
  Obj([idNotaSalida |-> Num(1), cliente |-> Obj([idCliente |-> Num(5)]),
       ubicaciones |-> Arr(<<UbicacionA, JsNull, UbicacionSinId, UbicacionB>>),
       codigoPedido |-> Num(7)])
Nota2 ==
  Obj([idNotaSalida |-> Num(2), cliente |-> Obj([idCliente |-> Num(6)]),
       ubicaciones |-> Arr(<<UbicacionC>>),
       codigoPedido |-> Num(8)])

\* Responses of GET /api/v1/notas-salidas/obtener: a thrown fetch, a non-ok
\* status, an error code in the body, a bare array, a page, a page
\* without content.
PedidosResponses ==
  { [thrown |-> TRUE, ok |-> FALSE, json |-> JsNull],
    [thrown |-> FALSE, ok |-> FALSE, json |-> JsNull],
    [thrown |-> FALSE, ok |-> TRUE, json |-> Obj([code |-> Num(500)])],
    [thrown |-> FALSE, ok |-> TRUE, json |-> Obj([data |-> Arr(<<Nota1, Nota2>>)])],
    [thrown |-> FALSE, ok |-> TRUE,
     json |-> Obj([code |-> Num(200),
                   data |-> Obj([content |-> Arr(<<Nota1, Nota2>>), totalPages |-> Num(1),
                                 totalElements |-> Num(2), last |-> Bool(TRUE)])])],
    [thrown |-> FALSE, ok |-> TRUE,
     json |-> Obj([code |-> Num(200), data |-> Obj([content |-> Arr(<<>>)])])] }

\* VehiculoApi / ConductorApi values: a numeric id and an id that is no number.
VehiculosApi == <<Obj([idVehiculo |-> Num(7)]), Obj([idVehiculo |-> Str(<<"v">>)])>>
ConductoresApi == <<Obj([idUsuario |-> Num(3)]), Obj([idUsuario |-> Str(<<"c">>)])>>

\* Responses of the two availability requests: a failure, or both lists.
DisponiblesResponses ==
  { [ok |-> FALSE, vehiculos |-> JsUndef, conductores |-> JsUndef],
    [ok |-> TRUE, vehiculos |-> Arr(VehiculosApi), conductores |-> Arr(ConductoresApi)],
    [ok |-> TRUE, vehiculos |-> Arr(<<>>), conductores |-> JsUndef] }

\* Sequence helpers (Array.prototype.filter / map / find / some).
filterSeq(xs, keep(_)) ==
  LET upTo[k \in 0..Len(xs)] ==
        IF k = 0 THEN <<>>
        ELSE IF keep(xs[k]) THEN Append(upTo[k - 1], xs[k]) ELSE upTo[k - 1]
  IN upTo[Len(xs)]
mapSeq(xs, f(_)) == [i \in 1..Len(xs) |-> f(xs[i])]
someSeq(xs, test(_)) == \E i \in 1..Len(xs) : test(xs[i])
\* The first element that passes the test, JsUndef when there is none.
findSeq(xs, test(_)) ==
  IF someSeq(xs, test)
  THEN xs[CHOOSE i \in 1..Len(xs) : test(xs[i]) /\ \A j \in 1..(i - 1) : ~test(xs[j])]
  ELSE JsUndef

\* ------------------------------------------------------------------------
\* ProgramarSalida.tsx: helpers
\* ------------------------------------------------------------------------

\* const isUbicacionValida = (ubicacion) => Boolean(ubicacion && id !== undefined && id !== null)
isUbicacionValida(ubicacion) ==
  /\ ubicacion.t = "obj"
  /\ field(ubicacion, "idUbicacionCliente").t \notin {"undefined", "null"}

\* const coerceStringIdToNumber = (value: string): number | null
coerceStringIdToNumber(value) ==
  LET parsed == Number(value.v) IN IF parsed = NaN THEN JsNull ELSE parsed

\* const parseMaybeNumber = (value: unknown): number | null
parseMaybeNumber(value) ==
  IF value.t = "num" THEN value
  ELSE IF value.t = "str"
       THEN (LET parsed == Number(value.v) IN IF parsed = NaN THEN JsNull ELSE parsed)
       ELSE JsNull

\* const extractProgramacionId = (payload: unknown): number | null
RECURSIVE extractProgramacionId(_)
extractProgramacionId(payload) ==
  IF ~truthy(payload) \/ payload.t # "obj" THEN JsNull
  ELSE LET directId == parseMaybeNumber(orElse(field(payload, "idProgramacion"),
                                               field(payload, "id_programacion")))
           nestedData == IF truthy(field(payload, "data"))
                         THEN extractProgramacionId(field(payload, "data")) ELSE JsNull
           nestedProgramacion == IF truthy(field(payload, "programacion"))
                                 THEN extractProgramacionId(field(payload, "programacion"))
                                 ELSE JsNull
       IN IF directId # JsNull THEN directId
          ELSE IF nestedData # JsNull THEN nestedData
          ELSE nestedProgramacion

\* The element of pedidosMapeados built from one nota (obtenerNotasSalida).
mapNota(nota) ==
  LET ubicacionesLimpias ==
        mapSeq(filterSeq(orElse(field(nota, "ubicaciones"), Arr(<<>>)).v, isUbicacionValida),
               LAMBDA ubicacion : [id |-> Str(String(field(ubicacion, "idUbicacionCliente"))),
                                   raw |-> ubicacion])
  IN [id |-> Str(String(field(nota, "idNotaSalida"))),
      nroPedido |-> Str(String(orElse(field(nota, "codigoPedido"), Str(<<>>)))),
      clienteInfo |-> orElse(field(nota, "cliente"), JsNull),
      ubicaciones |-> ubicacionesLimpias,
      ubicacionSeleccionada |-> JsUndef,
      seleccionado |-> FALSE,
      rawNota |-> nota]

\* const pedidosSeleccionados = useMemo(() => pedidos.filter(p => p.seleccionado), [pedidos])
pedidosSeleccionados == filterSeq(pedidos, LAMBDA p : p.seleccionado)

\* ------------------------------------------------------------------------
\* ProgramarSalida.tsx: effects and handlers
\* ------------------------------------------------------------------------

NoFetch == [live |-> FALSE]
Idle == [pc |-> "idle"]

\* object?.field
optField(object, name) == IF object.t = "obj" THEN field(object, name) ELSE JsUndef

\* A variant of pageBeyondEnd that accepts the response for every page.
pageBeyondEnd_Never(totalPaginas, safePage) == FALSE

\* if (totalPaginas > 0 && safePage >= totalPaginas), in both list effects
pageBeyondEnd(totalPaginas, safePage) == totalPaginas > 0 /\ safePage >= totalPaginas

maxOf(a, b) == IF a >= b THEN a ELSE b

\* A variant of correctedPage that asks for a page past the reported end.
correctedPage_Beyond(totalPaginas) == totalPaginas + 1

\* Math.max(totalPaginas - 1, 0), the page both list effects fall back to
correctedPage(totalPaginas) == maxOf(totalPaginas - 1, 0)

\* State after the component mounted: the useState initial values and the
\* first run of the three effects.
ProgInit ==
  /\ \E session \in {<<"tok", Num(9)>>, <<"tok", JsNull>>, <<"", Num(9)>>} :
       psToken = session[1] /\ psUserId = session[2]
  /\ fechaEntrega = today
  /\ vehiculoId = Str(<<>>)
  /\ conductorId = Str(<<>>)
  /\ vehiculos = <<>>
  /\ conductores = <<>>
  /\ pedidos = <<>>
  /\ pedidosPage = 0
  /\ pedidosSize = PEDIDOS_PAGE_SIZES[2]
  /\ pedidosTotalPages = 0
  /\ pedidosTotalElements = 0
  /\ isLoadingPedidos = (psToken # "")
  /\ pedidosError = Null
  /\ esUltimaPaginaPedidos = TRUE
  /\ psIsSubmitting = FALSE
  /\ psSubmitError = Null
  /\ psSubmitSuccess = Null
  /\ psFetch = IF psToken # "" THEN [live |-> TRUE, page |-> 0, size |-> PEDIDOS_PAGE_SIZES[2]]
               ELSE NoFetch
  /\ psDisponibles = IF psToken # "" THEN [live |-> TRUE, fecha |-> today] ELSE NoFetch
  /\ psCall = Idle
  /\ psBackend = {}
  /\ psRequests = {}

\* The catch block of obtenerNotasSalida for a request that is still mounted.
pedidosFailed(message) ==
  /\ pedidos' = <<>>
  /\ pedidosError' = message
  /\ pedidosTotalElements' = 0
  /\ pedidosTotalPages' = 0
  /\ esUltimaPaginaPedidos' = TRUE
  /\ isLoadingPedidos' = FALSE
  /\ psFetch' = NoFetch
  /\ UNCHANGED <<pedidosPage, pedidosSize>>

\* obtenerNotasSalida after its awaits: the response of the live request.
obtenerNotasSalida(resp) ==
  /\ UNCHANGED notProg
  /\ psFetch.live
  /\ LET safePage == maxOf(0, psFetch.page)
         json == resp.json
         data == optField(json, "data")
         pageData == data
         content == optField(pageData, "content")
         listaNotas == IF data.t = "arr" THEN data.v
                       ELSE IF data.t = "obj" /\ content.t = "arr" THEN content.v
                       ELSE <<>>
         totalPaginas ==
           IF data.t = "arr" THEN (IF Len(data.v) # 0 THEN 1 ELSE 0)
           ELSE IF data.t = "obj"
                THEN (IF field(pageData, "totalPages").t = "num" THEN field(pageData, "totalPages").v
                      ELSE IF Len(listaNotas) # 0 THEN 1 ELSE 0)
                ELSE 0
         totalRegistros ==
           IF data.t = "arr" THEN Len(data.v)
           ELSE IF data.t = "obj"
                THEN (IF field(pageData, "totalElements").t = "num"
                      THEN field(pageData, "totalElements").v ELSE Len(listaNotas))
                ELSE 0
         ultimaPagina ==
           IF data.t = "obj"
           THEN (IF field(pageData, "last").t = "bool" THEN field(pageData, "last").v
                 ELSE IF totalPaginas # 0 THEN safePage >= totalPaginas - 1 ELSE TRUE)
           ELSE TRUE
     IN
     IF resp.thrown THEN pedidosFailed("<error.message>")
     ELSE IF ~resp.ok
     THEN pedidosFailed(IF optField(json, "message").t \in {"null", "undefined"}
                        THEN "Respuesta inesperada (status)" ELSE "<message>")
     ELSE IF truthy(optField(json, "code")) /\ optField(json, "code") # Num(200)
     THEN pedidosFailed(IF truthy(optField(json, "message")) THEN "<message>"
                        ELSE "Error al obtener notas de salida.")
     ELSE IF pageBeyondEnd(totalPaginas, safePage)
     THEN \* setPedidosPage; the page change runs the effect again
          /\ pedidosPage' = correctedPage(totalPaginas)
          /\ isLoadingPedidos' = TRUE
          /\ pedidosError' = Null
          /\ psFetch' = [live |-> TRUE, page |-> pedidosPage', size |-> pedidosSize]
          /\ UNCHANGED <<pedidos, pedidosSize, pedidosTotalPages, pedidosTotalElements,
                         esUltimaPaginaPedidos>>
     ELSE /\ pedidos' = mapSeq(listaNotas, mapNota)
          /\ pedidosTotalElements' = totalRegistros
          /\ pedidosTotalPages' = totalPaginas
          /\ esUltimaPaginaPedidos' = ultimaPagina
          /\ isLoadingPedidos' = FALSE
          /\ psFetch' = NoFetch
          /\ UNCHANGED <<pedidosPage, pedidosSize, pedidosError>>
  /\ UNCHANGED <<psFormVars, psDisponibles, psSubmitVars>>

\* The options built from one list of the availability response.
optionIds(list, idField) ==
  IF list.t = "arr" THEN mapSeq(list.v, LAMBDA item : Str(String(field(item, idField))))
  ELSE <<>>

\* obtenerDisponibles after its awaits, for the effect run that is still
\* mounted.
obtenerDisponibles(resp) ==
  /\ UNCHANGED notProg
  /\ psDisponibles.live
  /\ psDisponibles' = NoFetch
  /\ IF resp.ok
     THEN LET vehiculosOptions == optionIds(resp.vehiculos, "idVehiculo")
              conductoresOptions == optionIds(resp.conductores, "idUsuario")
          IN /\ vehiculos' = vehiculosOptions
             /\ conductores' = conductoresOptions
             /\ vehiculoId' = IF someSeq(vehiculosOptions, LAMBDA v : v = vehiculoId)
                              THEN vehiculoId ELSE Str(<<>>)
             /\ conductorId' = IF someSeq(conductoresOptions, LAMBDA c : c = conductorId)
                               THEN conductorId ELSE Str(<<>>)
     ELSE /\ vehiculos' = <<>>
          /\ conductores' = <<>>
          /\ vehiculoId' = Str(<<>>)
          /\ conductorId' = Str(<<>>)
  /\ UNCHANGED <<psToken, psUserId, fechaEntrega, psListVars, psSubmitVars>>

\* onChange of the date input: setFechaEntrega, then the effects that depend
\* on fechaEntrega (reset of both selects, a new availability request).
setFechaEntrega(value) ==
  /\ UNCHANGED notProg
  /\ value # fechaEntrega
  /\ fechaEntrega' = value
  /\ vehiculoId' = Str(<<>>)
  /\ conductorId' = Str(<<>>)
  /\ psDisponibles' =
       IF psToken # ""
       THEN [live |-> TRUE, fecha |-> IF value # EmptyDate /\ value >= today THEN value ELSE today]
       ELSE psDisponibles
  /\ UNCHANGED <<psToken, psUserId, vehiculos, conductores, psListVars, psSubmitVars>>

\* onChange of the vehicle select: one of the listed options.
setVehiculoId(value) ==
  /\ UNCHANGED notProg
  /\ someSeq(vehiculos, LAMBDA v : v = value)
  /\ vehiculoId' = value
  /\ UNCHANGED <<psToken, psUserId, fechaEntrega, conductorId, vehiculos, conductores,
                 psDisponibles, psListVars, psSubmitVars>>

\* onChange of the driver select: one of the listed options.
setConductorId(value) ==
  /\ UNCHANGED notProg
  /\ someSeq(conductores, LAMBDA c : c = value)
  /\ conductorId' = value
  /\ UNCHANGED <<psToken, psUserId, fechaEntrega, vehiculoId, vehiculos, conductores,
                 psDisponibles, psListVars, psSubmitVars>>

\* Whether the table shows the rows of pedidos (not the loading or error row).
rowsShown == ~isLoadingPedidos /\ pedidosError = Null /\ Len(pedidos) # 0

\* const actualizarUbicacion = (id, ubicacionId) => setPedidos(prev => prev.map(...))
\* called by the select of row i with one of that row's options.
actualizarUbicacion(i, ubicacionId) ==
  /\ UNCHANGED notProg
  /\ rowsShown
  /\ i \in 1..Len(pedidos)
  /\ someSeq(pedidos[i].ubicaciones, LAMBDA u : u.id = ubicacionId)
  /\ pedidos[i].ubicacionSeleccionada # ubicacionId
  /\ pedidos' = mapSeq(pedidos, LAMBDA p : IF p.id = pedidos[i].id
                                            THEN [p EXCEPT !.ubicacionSeleccionada = ubicacionId]
                                            ELSE p)
  /\ UNCHANGED <<psFormVars, psDisponibles, pedidosPage, pedidosSize, pedidosTotalPages,
                 pedidosTotalElements, isLoadingPedidos, pedidosError, esUltimaPaginaPedidos,
                 psFetch, psSubmitVars>>

\* const toggleSeleccion = (id) => setPedidos(prev => prev.map(...))
toggleSeleccion(i) ==
  /\ UNCHANGED notProg
  /\ rowsShown
  /\ i \in 1..Len(pedidos)
  /\ pedidos' = mapSeq(pedidos, LAMBDA p : IF p.id = pedidos[i].id
                                            THEN [p EXCEPT !.seleccionado = ~p.seleccionado]
                                            ELSE p)
  /\ UNCHANGED <<psFormVars, psDisponibles, pedidosPage, pedidosSize, pedidosTotalPages,
                 pedidosTotalElements, isLoadingPedidos, pedidosError, esUltimaPaginaPedidos,
                 psFetch, psSubmitVars>>

\* submitValidation without the check of the selected locations (mutant).
submitValidation_NoLocationCheck ==
  IF fechaEntrega = EmptyDate THEN "Selecciona una fecha de entrega."
  ELSE IF fechaEntrega < today THEN "La fecha de entrega no puede ser anterior a hoy."
  ELSE IF ~truthy(vehiculoId) THEN "Selecciona un vehiculo."
  ELSE IF ~truthy(conductorId) THEN "Selecciona un conductor."
  ELSE IF Len(pedidosSeleccionados) = 0 THEN "Selecciona al menos un pedido para programar."
  ELSE IF coerceStringIdToNumber(vehiculoId) = JsNull
       THEN "El identificador del vehiculo no es valido."
  ELSE IF coerceStringIdToNumber(conductorId) = JsNull
       THEN "El identificador del conductor no es valido."
  ELSE IF orElse(psUserId, JsNull) = JsNull
       THEN "No se encontro el identificador del administrador."
  ELSE IF psToken = ""
       THEN "No se encontro un token de autenticacion. Inicia sesion e intentalo nuevamente."
  ELSE Null

\* The message of the first check of guardarProgramacion that fails, Null
\* when all of them pass (the checks before window.confirm, in order).
submitValidation ==
  LET seleccionados == pedidosSeleccionados
      pendientesDeUbicacion == filterSeq(seleccionados, LAMBDA p : ~truthy(p.ubicacionSeleccionada))
      idVehiculo == coerceStringIdToNumber(vehiculoId)
      idConductor == coerceStringIdToNumber(conductorId)
      idAdministrador == orElse(psUserId, JsNull)
  IN
  CASE fechaEntrega = EmptyDate -> "Selecciona una fecha de entrega."
    [] fechaEntrega # EmptyDate /\ fechaEntrega < today ->
         "La fecha de entrega no puede ser anterior a hoy."
    [] OTHER ->
       IF ~truthy(vehiculoId) THEN "Selecciona un vehiculo."
       ELSE IF ~truthy(conductorId) THEN "Selecciona un conductor."
       ELSE IF Len(seleccionados) = 0 THEN "Selecciona al menos un pedido para programar."
       ELSE IF Len(pendientesDeUbicacion) # 0
            THEN "Selecciona una ubicacion para cada pedido marcado."
       ELSE IF idVehiculo = JsNull THEN "El identificador del vehiculo no es valido."
       ELSE IF idConductor = JsNull THEN "El identificador del conductor no es valido."
       ELSE IF idAdministrador = JsNull
            THEN "No se encontro el identificador del administrador."
       ELSE IF psToken = ""
            THEN "No se encontro un token de autenticacion. Inicia sesion e intentalo nuevamente."
       ELSE Null

\* A request as it leaves the browser: method, url, and whether the user
\* accepted a confirm dialog in the handler invocation that sends it.
Request(method, url, confirmado) == [method |-> method, url |-> url, confirmado |-> confirmado]

\* guardarProgramacion from the submit event to its first await; confirmado
\* is the answer the user gives if window.confirm is reached.
guardarProgramacion(confirmado) ==
  /\ UNCHANGED notProg
  /\ IF psIsSubmitting
     THEN UNCHANGED <<psIsSubmitting, psSubmitError, psSubmitSuccess, psCall, psRequests>>
     ELSE /\ psSubmitSuccess' = Null
          /\ IF submitValidation # Null
             THEN /\ psSubmitError' = submitValidation
                  /\ UNCHANGED <<psIsSubmitting, psCall, psRequests>>
             ELSE IF ~confirmado
             THEN /\ psSubmitError' = Null
                  /\ UNCHANGED <<psIsSubmitting, psCall, psRequests>>
             ELSE /\ psSubmitError' = Null
                  /\ psIsSubmitting' = TRUE
                  /\ psCall' = [pc |-> "awaitProgramacion",
                                seleccionados |-> pedidosSeleccionados,
                                pedidosAtSubmit |-> pedidos,
                                programacionPayload |->
                                  [idVehiculo |-> coerceStringIdToNumber(vehiculoId),
                                   idConductor |-> coerceStringIdToNumber(conductorId),
                                   idAdministrador |-> orElse(psUserId, JsNull),
                                   estadoEntrega |-> 1,
                                   fechaEntrega |-> fechaEntrega,
                                   status |-> 1]]
                  /\ psRequests' = psRequests \cup
                       {Request("POST", "/api/v1/programacion-distribucion/add", confirmado)}
  /\ UNCHANGED <<psFormVars, psDisponibles, psListVars, psBackend>>

\* The catch and finally blocks of guardarProgramacion.
guardarFailed(message) ==
  /\ psSubmitError' = message
  /\ psIsSubmitting' = FALSE
  /\ psCall' = Idle
  /\ UNCHANGED <<psSubmitSuccess, psRequests, pedidos>>

\* The bodies with which the backend answers a programacion it created with
\* identifier id: the id at the top level, nested under data as a string,
\* nested under programacion, absent, or a body that is not JSON.
ProgramacionBodies(id) ==
  { Obj([idProgramacion |-> Num(id)]),
    Obj([code |-> Num(200), data |-> Obj([id_programacion |-> Str(natToChars(id))])]),
    Obj([idProgramacion |-> JsNull, programacion |-> Obj([idProgramacion |-> Num(id)])]),
    Obj([code |-> Num(200)]),
    JsNull }

\* The element of salidasPayload built from one selected pedido; JsUndef when
\* the map callback throws because the location cannot be resolved.
salidaEntry(pedido) ==
  LET ubicacion == findSeq(pedido.ubicaciones, LAMBDA u : u.id = pedido.ubicacionSeleccionada) IN
  IF ubicacion = JsUndef THEN JsUndef
  ELSE IF ~truthy(ubicacion.raw) THEN JsUndef
  ELSE Obj([idNotaSalida |-> field(pedido.rawNota, "idNotaSalida"),
            cliente |-> orElse(field(pedido.rawNota, "cliente"), JsNull),
            ubicaciones |-> ubicacion.raw,
            codigoPedido |-> orElse(field(pedido.rawNota, "codigoPedido"), JsNull)])

\* salidaEntry that always takes the pedido's first location (mutant).
salidasPayload_FirstLocation(seleccionados) ==
  mapSeq(seleccionados,
         LAMBDA pedido : Obj([idNotaSalida |-> field(pedido.rawNota, "idNotaSalida"),
                              cliente |-> orElse(field(pedido.rawNota, "cliente"), JsNull),
                              ubicaciones |-> pedido.ubicaciones[1].raw,
                              codigoPedido |-> orElse(field(pedido.rawNota, "codigoPedido"), JsNull)]))

\* const salidasPayload = seleccionados.map(...)
salidasPayload(seleccionados) == mapSeq(seleccionados, salidaEntry)

\* guardarProgramacion after the programacion POST settled. outcome is what
\* the backend did with it: "thrown" (no response), "rejected" (non-ok
\* status), or "created" with the response body.
programacionSettled(outcome, body) ==
  /\ UNCHANGED notProg
  /\ psCall.pc = "awaitProgramacion"
  /\ IF outcome = "thrown"
     THEN guardarFailed("<error.message>") /\ UNCHANGED psBackend
     ELSE IF outcome = "rejected"
     THEN guardarFailed("Error al registrar la programacion") /\ UNCHANGED psBackend
     ELSE LET id == Cardinality(psBackend) + 1
              programacionId == extractProgramacionId(body)
              payload == salidasPayload(psCall.seleccionados)
          IN /\ Cardinality(psBackend) < MaxProgramaciones
             /\ body \in ProgramacionBodies(id)
             /\ psBackend' = psBackend \cup {[id |-> id, salidas |-> FALSE]}
             /\ IF programacionId = JsNull
                THEN guardarFailed("La API no devolvio el identificador de la programacion.")
                ELSE IF someSeq(payload, LAMBDA entry : entry = JsUndef)
                THEN guardarFailed("No se encontro la ubicacion seleccionada para el pedido")
                ELSE /\ psCall' = [pc |-> "awaitSalidas",
                                   programacionId |-> programacionId,
                                   pedidosAtSubmit |-> psCall.pedidosAtSubmit,
                                   body |-> payload]
                     /\ psRequests' = psRequests \cup
                          {Request("POST", "/api/v1/salidas-programadas/add/{id}", TRUE)}
                     /\ UNCHANGED <<psIsSubmitting, psSubmitError, psSubmitSuccess, pedidos>>
  /\ UNCHANGED <<psFormVars, psDisponibles, pedidosPage, pedidosSize, pedidosTotalPages,
                 pedidosTotalElements, isLoadingPedidos, pedidosError, esUltimaPaginaPedidos,
                 psFetch>>

\* guardarProgramacion after the salidas POST settled: "ok" (the backend
\* registered the salidas of that programacion), "rejected" or "thrown".
salidasSettled(outcome) ==
  /\ UNCHANGED notProg
  /\ psCall.pc = "awaitSalidas"
  /\ IF outcome = "ok"
     THEN /\ psBackend' = {IF p.id = psCall.programacionId.v THEN [p EXCEPT !.salidas = TRUE] ELSE p
                           : p \in psBackend}
          /\ psSubmitSuccess' = "Programacion registrada correctamente."
          /\ pedidos' = mapSeq(pedidos, LAMBDA p : [p EXCEPT !.seleccionado = FALSE,
                                                             !.ubicacionSeleccionada = JsUndef])
          /\ psIsSubmitting' = FALSE
          /\ psCall' = Idle
          /\ UNCHANGED <<psSubmitError, psRequests>>
     ELSE /\ guardarFailed(IF outcome = "rejected" THEN "Error al registrar las salidas"
                           ELSE "<error.message>")
          /\ UNCHANGED psBackend
  /\ UNCHANGED <<psFormVars, psDisponibles, pedidosPage, pedidosSize, pedidosTotalPages,
                 pedidosTotalElements, isLoadingPedidos, pedidosError, esUltimaPaginaPedidos,
                 psFetch>>

ProgNext ==
  \/ \E resp \in PedidosResponses : obtenerNotasSalida(resp)
  \/ \E resp \in DisponiblesResponses : obtenerDisponibles(resp)
  \/ \E value \in {EmptyDate} \cup Dates : setFechaEntrega(value)
  \/ \E i \in 1..Len(vehiculos) : setVehiculoId(vehiculos[i])
  \/ \E i \in 1..Len(conductores) : setConductorId(conductores[i])
  \/ \E i \in 1..Len(pedidos) : \E u \in 1..Len(pedidos[i].ubicaciones) :
       actualizarUbicacion(i, pedidos[i].ubicaciones[u].id)
  \/ \E i \in 1..Len(pedidos) : toggleSeleccion(i)
  \/ \E confirmado \in BOOLEAN : guardarProgramacion(confirmado)
  \/ \E outcome \in {"thrown", "rejected"} : programacionSettled(outcome, JsNull)
  \/ \E body \in ProgramacionBodies(Cardinality(psBackend) + 1) : programacionSettled("created", body)
  \/ \E outcome \in {"ok", "rejected", "thrown"} : salidasSettled(outcome)

\* ------------------------------------------------------------------------
\* Claims about ProgramarSalida
\* ------------------------------------------------------------------------

\* The checks of the claim, in its order, each with the message it reports.
submitChecks ==
  << <<fechaEntrega # EmptyDate, "Selecciona una fecha de entrega.">>,
     <<fechaEntrega = EmptyDate \/ fechaEntrega >= today,
       "La fecha de entrega no puede ser anterior a hoy.">>,
     <<vehiculoId # Str(<<>>), "Selecciona un vehiculo.">>,
     <<conductorId # Str(<<>>), "Selecciona un conductor.">>,
     <<\E i \in 1..Len(pedidos) : pedidos[i].seleccionado,
       "Selecciona al menos un pedido para programar.">>,
     <<\A i \in 1..Len(pedidos) :
          pedidos[i].seleccionado => pedidos[i].ubicacionSeleccionada \notin {JsUndef, Str(<<>>)},
       "Selecciona una ubicacion para cada pedido marcado.">>,
     <<Number(vehiculoId.v) # NaN, "El identificador del vehiculo no es valido.">>,
     <<Number(conductorId.v) # NaN, "El identificador del conductor no es valido.">>,
     <<psUserId \notin {JsNull, JsUndef}, "No se encontro el identificador del administrador.">>,
     <<psToken # "",
       "No se encontro un token de autenticacion. Inicia sesion e intentalo nuevamente.">> >>

allChecksPass == \A k \in 1..Len(submitChecks) : submitChecks[k][1]
firstFailingMessage ==
  submitChecks[CHOOSE k \in 1..Len(submitChecks) :
                 ~submitChecks[k][1] /\ \A j \in 1..(k - 1) : submitChecks[j][1]][2]

C5_NoProgramacionWithoutSalidas ==
  psCall = Idle => \A p \in psBackend : p.salidas

\* The pedidos that were selected when the form was submitted, in list order.
selectedAtSubmit == filterSeq(psCall.pedidosAtSubmit, LAMBDA p : p.seleccionado)

\* The locations the backend listed for the nota of a pedido.
listedLocations(pedido) ==
  LET raw == field(pedido.rawNota, "ubicaciones") IN
  IF raw.t = "arr" THEN {raw.v[i] : i \in 1..Len(raw.v)} ELSE {}

\* C6: the body of the salidas request has exactly one entry per pedido that
\* was selected at submit time, in order; each entry carries that pedido's
\* idNotaSalida and client and, as its location, a location listed for that
\* same pedido whose id is the one chosen for it.
C6_SalidasMatchSelection ==
  psCall.pc = "awaitSalidas" =>
    /\ Len(psCall.body) = Len(selectedAtSubmit)
    /\ \A k \in 1..Len(psCall.body) :
         LET entry == psCall.body[k]
             pedido == selectedAtSubmit[k]
         IN /\ field(entry, "idNotaSalida") = field(pedido.rawNota, "idNotaSalida")
            /\ field(entry, "cliente") = field(pedido.rawNota, "cliente")
            /\ field(entry, "ubicaciones") \in listedLocations(pedido)
            /\ Str(String(field(field(entry, "ubicaciones"), "idUbicacionCliente")))
                 = pedido.ubicacionSeleccionada

\* C6 witness: a salidas request for two pedidos is in flight, the first
\* with the second of its locations, while the list has since been changed.
C6_Witness ==
  /\ psCall.pc = "awaitSalidas"
  /\ Len(psCall.body) = 2
  /\ field(psCall.body[1], "ubicaciones") = UbicacionB
  /\ pedidos # psCall.pedidosAtSubmit

\* ------------------------------------------------------------------------
\* Dispositivos.tsx: data
\* ------------------------------------------------------------------------

\* Devices Traccar creates before it only rejects.
MaxDevices == 1

\* const PAGE_SIZES = [5, 10, 15, 20]
PAGE_SIZES == <<5, 10, 15, 20>>

NoFeedback == [type |-> "none"]
NoDispositivo == [id |-> JsNull]

\* What the user types into the two inputs of the new-device form.
CodigoTexts == {<<>>, <<"g", " ">>}
ModeloTexts == {<<" ">>, <<"m">>}

\* The id field of Traccar's answer to POST /api/devices for the device it
\* created with identifier k: the number, its decimal string, or an answer
\* without usable id (absent, null, empty string).
TraccarIdFields(k) == {Num(k), Str(natToChars(k)), JsUndef, JsNull, Str(<<>>)}

\* A device registered before this session, without Traccar identifier.
LegacyDevice ==
  [api |-> Obj([idDispositivo |-> Num(1), codigo |-> Str(<<" ">>), modelo |-> Str(<<"m">>),
                activo |-> Num(1), status |-> Num(1)]),
   traccarDevice |-> 0,
   present |-> TRUE]

\* const sanitize = (value?: string | null): string => (value ?? '').trim()
sanitize(value) == trim(orElse(value, Str(<<>>)).v)

\* const mapDispositivo = (dispositivo: DispositivoApi): Dispositivo
mapDispositivo(dispositivo) ==
  [id |-> Str(String(field(dispositivo, "idDispositivo"))),
   codigo |-> Str(sanitize(field(dispositivo, "codigo"))),
   modelo |-> Str(sanitize(field(dispositivo, "modelo"))),
   activo |-> orElse(field(dispositivo, "activo"), JsNull),
   status |-> orElse(field(dispositivo, "status"), JsNull)]

\* The records the backend holds (a deleted record stays in dvBackend,
\* marked, so that its origin remains known).
presentIn(records) == {r \in records : r.present}

\* The backend's devices as a list, by idDispositivo.
RECURSIVE listOf(_)
listOf(records) ==
  IF records = {} THEN <<>>
  ELSE LET first == CHOOSE r \in records :
                      \A other \in records :
                        field(r.api, "idDispositivo").v <= field(other.api, "idDispositivo").v
       IN <<first.api>> \o listOf(records \ {first})

\* The payload of POST /api/v1/dispositivosGps/add with the typed codigo as
\* codigo instead of the Traccar id (mutant).
dispositivoPayload_TypedCodigo(codigo, modelo, traccarDeviceId) ==
  Obj([idDispositivo |-> JsNull,
       codigo |-> Str(codigo),
       modelo |-> Str(codigo \o (IF modelo # <<>> THEN <<",", " ">> \o modelo ELSE <<>>)),
       activo |-> Num(1),
       status |-> Num(1)])

\* const payload = { idDispositivo: null, codigo: traccarIdAsString, ... }
dispositivoPayload(codigo, modelo, traccarDeviceId) ==
  LET traccarIdAsString == String(traccarDeviceId)
      modeloAlmacenado == codigo \o (IF modelo # <<>> THEN <<",", " ">> \o modelo ELSE <<>>)
  IN Obj([idDispositivo |-> JsNull,
          codigo |-> Str(traccarIdAsString),
          modelo |-> Str(modeloAlmacenado),
          activo |-> Num(1),
          status |-> Num(1)])

\* shouldRevert that never reverts (mutant).
shouldRevert_Never(traccarDeviceId) == FALSE

\* if (traccarDeviceId !== undefined && traccarDeviceId !== null) in the catch
\* block of handleGuardarNuevo
shouldRevert(traccarDeviceId) ==
  traccarDeviceId # JsUndef /\ traccarDeviceId # JsNull

\* ------------------------------------------------------------------------
\* Dispositivos.tsx: effect and handlers
\* ------------------------------------------------------------------------

NoCall ==
  [pc |-> "idle", codigo |-> <<>>, modelo |-> <<>>, traccarOutcome |-> "none", traccarDeviceId |-> JsUndef, traccarDevice |-> 0,
   backendOutcome |-> "none", backendBody |-> JsNull, deletes |-> <<>>, error |-> Null]

\* State after the component mounted: the useState initial values and the
\* first run of the list effect.
DispInitWith(devices, records) ==
  /\ dvToken \in {"tok", ""}
  /\ query = <<>>
  /\ searchTerm = <<"a", "l", "l">>
  /\ reloadKey = 0
  /\ dispositivos = <<>>
  /\ selectedDispositivo = NoDispositivo
  /\ dvLoading = (dvToken # "")
  /\ dvError = Null
  /\ nuevoCodigo = <<>>
  /\ nuevoModelo = <<>>
  /\ dvIsSubmitting = FALSE
  /\ dvSubmitError = Null
  /\ dvSubmitSuccess = Null
  /\ page = 0
  /\ size = PAGE_SIZES[2]
  /\ totalElements = 0
  /\ totalPages = 0
  /\ isFirstPage = TRUE
  /\ isLastPage = TRUE
  /\ deletingId = JsNull
  /\ deleteFeedback = NoFeedback
  /\ dvFetch = IF dvToken # "" THEN [live |-> TRUE, page |-> 0] ELSE NoFetch
  /\ dvCall = NoCall
  /\ dvDeletes = <<>>
  /\ traccar = devices
  /\ dvBackend = records
  /\ dvRequests = {}

\* The screen mounted when the only device is the legacy one.
DispInit == DispInitWith({}, {LegacyDevice})

\* The catch block of obtenerDispositivos for a request that is still mounted.
dispositivosFailed ==
  /\ dvError' = "No se pudieron cargar los dispositivos. Intenta nuevamente."
  /\ dispositivos' = <<>>
  /\ selectedDispositivo' = NoDispositivo
  /\ totalElements' = 0
  /\ totalPages' = 0
  /\ isFirstPage' = TRUE
  /\ isLastPage' = TRUE
  /\ dvLoading' = FALSE
  /\ dvFetch' = NoFetch
  /\ UNCHANGED page

\* The answers of GET /api/v1/dispositivosGps/{term}: a thrown fetch, a
\* non-ok status, or a page holding the backend's devices.
DispositivosResponses ==
  { [thrown |-> TRUE, ok |-> FALSE, json |-> JsNull],
    [thrown |-> FALSE, ok |-> FALSE, json |-> JsNull],
    [thrown |-> FALSE, ok |-> TRUE,
     json |-> Obj([code |-> Num(200),
                   data |-> Obj([content |-> Arr(listOf(presentIn(dvBackend))),
                                 totalElements |-> Num(Cardinality(presentIn(dvBackend))),
                                 totalPages |-> Num(IF presentIn(dvBackend) = {} THEN 0 ELSE 1)])])] }

\* obtenerDispositivos after its awaits: the response of the live request.
obtenerDispositivos(resp) ==
  /\ UNCHANGED notDisp
  /\ dvFetch.live
  /\ LET safePage == maxOf(dvFetch.page, 0)
         json == resp.json
         data == optField(json, "data")
         pageData == data
         content == optField(pageData, "content")
         itemsSource == IF data.t = "arr" THEN data.v
                        ELSE IF data.t = "obj" /\ content.t = "arr" THEN content.v
                        ELSE <<>>
         totalRegistros ==
           IF data.t = "arr" THEN Len(data.v)
           ELSE IF data.t = "obj"
                THEN (IF field(pageData, "totalElements").t = "num"
                      THEN field(pageData, "totalElements").v ELSE Len(itemsSource))
                ELSE 0
         totalPaginas ==
           IF data.t = "arr" THEN (IF Len(data.v) # 0 THEN 1 ELSE 0)
           ELSE IF data.t = "obj"
                THEN (IF field(pageData, "totalPages").t = "num" THEN field(pageData, "totalPages").v
                      ELSE IF totalRegistros > 0 /\ size > 0
                           THEN (totalRegistros + size - 1) \div size
                           ELSE IF Len(itemsSource) # 0 THEN 1 ELSE 0)
                ELSE 0
         firstFlag ==
           IF data.t = "arr" THEN TRUE
           ELSE IF data.t = "obj" /\ field(pageData, "first").t = "bool"
                THEN field(pageData, "first").v
                ELSE safePage <= 0
         lastFlag ==
           IF data.t = "obj"
           THEN (IF field(pageData, "last").t = "bool" THEN field(pageData, "last").v
                 ELSE IF totalPaginas # 0 THEN safePage >= totalPaginas - 1
                 ELSE Len(itemsSource) < size)
           ELSE TRUE
         mappedItems == mapSeq(itemsSource, mapDispositivo)
     IN
     IF resp.thrown \/ ~resp.ok
        \/ (truthy(optField(json, "code")) /\ optField(json, "code") # Num(200))
     THEN dispositivosFailed
     ELSE IF pageBeyondEnd(totalPaginas, safePage)
     THEN \* setPage; the page change runs the effect again
          /\ page' = correctedPage(totalPaginas)
          /\ dvLoading' = TRUE
          /\ dvError' = Null
          /\ dvFetch' = [live |-> TRUE, page |-> page']
          /\ UNCHANGED <<dispositivos, selectedDispositivo, totalElements, totalPages,
                         isFirstPage, isLastPage>>
     ELSE /\ dispositivos' = mappedItems
          /\ totalElements' = totalRegistros
          /\ totalPages' = totalPaginas
          /\ isFirstPage' = firstFlag
          /\ isLastPage' = lastFlag
          /\ selectedDispositivo' =
               IF selectedDispositivo # NoDispositivo
                  /\ someSeq(mappedItems, LAMBDA item : item.id = selectedDispositivo.id)
               THEN selectedDispositivo ELSE NoDispositivo
          /\ dvLoading' = FALSE
          /\ dvFetch' = NoFetch
          /\ UNCHANGED <<page, dvError>>
  /\ UNCHANGED <<dvToken, query, searchTerm, reloadKey, size, dvFormVars, dvSubmitVars,
                 dvDeleteVars, dvServers, dvRequests>>

\* onChange of the two inputs of the new-device form.
setNuevoCodigo(value) ==
  /\ UNCHANGED notDisp
  /\ value # nuevoCodigo
  /\ nuevoCodigo' = value
  /\ UNCHANGED <<nuevoModelo, dvListVars, dvSubmitVars, dvDeleteVars, dvServers, dvRequests>>

setNuevoModelo(value) ==
  /\ UNCHANGED notDisp
  /\ value # nuevoModelo
  /\ nuevoModelo' = value
  /\ UNCHANGED <<nuevoCodigo, dvListVars, dvSubmitVars, dvDeleteVars, dvServers, dvRequests>>

\* handleGuardarNuevo from the click to its first await. The button is
\* disabled while isSubmitting.
handleGuardarNuevo ==
  /\ UNCHANGED notDisp
  /\ ~dvIsSubmitting
  /\ IF dvToken = ""
     THEN /\ dvSubmitError' = "No se encontro un token de autenticacion."
          /\ UNCHANGED <<dvSubmitSuccess, dvIsSubmitting, dvCall, dvRequests>>
     ELSE LET codigo == sanitize(Str(nuevoCodigo))
              modelo == sanitize(Str(nuevoModelo))
          IN /\ dvSubmitSuccess' = Null
             /\ IF codigo = <<>> \/ modelo = <<>>
                THEN /\ dvSubmitError' = "Completa el codigo y el modelo del dispositivo."
                     /\ UNCHANGED <<dvIsSubmitting, dvCall, dvRequests>>
                ELSE /\ dvSubmitError' = Null
                     /\ dvIsSubmitting' = TRUE
                     /\ dvCall' = [NoCall EXCEPT !.pc = "awaitTraccar",
                                                 !.codigo = codigo, !.modelo = modelo]
                     /\ dvRequests' = dvRequests \cup {Request("POST", "traccar:/api/devices", FALSE)}
  /\ UNCHANGED <<dvFormVars, dvListVars, dvDeleteVars, dvServers>>

\* The list effect runs again after its dependencies changed (the token is
\* present in every handler that gets here): a new live request.
listEffectRerun(newPage) ==
  /\ dvLoading' = TRUE
  /\ dvError' = Null
  /\ dvFetch' = [live |-> TRUE, page |-> newPage]

\* const toggleDetalle = (dispositivo) => setSelectedDispositivo(...)
toggleDetalle(i) ==
  /\ UNCHANGED notDisp
  /\ i \in 1..Len(dispositivos)
  /\ selectedDispositivo' =
       IF selectedDispositivo # NoDispositivo /\ selectedDispositivo.id = dispositivos[i].id
       THEN NoDispositivo ELSE dispositivos[i]
  /\ UNCHANGED <<dvToken, query, searchTerm, reloadKey, dispositivos, dvLoading,
                 dvError, page, size, totalElements, totalPages, isFirstPage, isLastPage, dvFetch,
                 dvFormVars, dvSubmitVars, dvDeleteVars, dvServers, dvRequests>>

\* DELETE /api/devices/{segment} on Traccar, answered ok: the device whose
\* identifier is written like the segment is gone.
traccarDelete(devices, segment) ==
  {IF natToChars(d.id) = segment THEN [d EXCEPT !.alive = FALSE] ELSE d : d \in devices}

\* The catch and finally blocks of handleGuardarNuevo once nothing is left
\* to await.
guardarNuevoFinished(call) ==
  /\ dvSubmitError' = call.error
  /\ dvIsSubmitting' = FALSE
  /\ dvCall' = [call EXCEPT !.pc = "idle"]

\* The catch block of handleGuardarNuevo: revert the Traccar registration if
\* there is an id, then report the error.
guardarNuevoCatch(call) ==
  IF shouldRevert(call.traccarDeviceId)
  THEN /\ dvCall' = [call EXCEPT !.pc = "awaitCleanup",
                                 !.deletes = Append(@, encodeURIComponent(call.traccarDeviceId))]
       /\ dvRequests' = dvRequests \cup {Request("DELETE", "traccar:/api/devices/{id}", FALSE)}
       /\ UNCHANGED <<dvSubmitError, dvIsSubmitting>>
  ELSE /\ guardarNuevoFinished(call)
       /\ UNCHANGED dvRequests

\* handleGuardarNuevo after POST /api/devices settled: "thrown", "rejected",
\* or "created" with the id field of the answer.
traccarSettled(outcome, idField) ==
  /\ UNCHANGED notDisp
  /\ dvCall.pc = "awaitTraccar"
  /\ IF outcome # "created"
     THEN /\ guardarNuevoCatch([dvCall EXCEPT !.traccarOutcome = outcome,
                                              !.error = "Error al registrar el dispositivo en Traccar"])
          /\ UNCHANGED traccar
     ELSE LET k == Cardinality(traccar) + 1 IN
          /\ Cardinality(traccar) < MaxDevices
          /\ idField \in TraccarIdFields(k)
          /\ traccar' = traccar \cup {[id |-> k, alive |-> TRUE]}
          /\ IF idField = JsUndef \/ idField = JsNull \/ idField = Str(<<>>)
             THEN guardarNuevoCatch(
                    [dvCall EXCEPT !.traccarOutcome = "ok", !.traccarDeviceId = idField,
                                   !.traccarDevice = k,
                                   !.error = "Traccar no devolvio un identificador para el dispositivo registrado."])
             ELSE /\ dvCall' = [dvCall EXCEPT !.pc = "awaitBackend", !.traccarOutcome = "ok",
                                              !.traccarDeviceId = idField, !.traccarDevice = k,
                                              !.backendBody =
                                                 dispositivoPayload(dvCall.codigo, dvCall.modelo, idField)]
                  /\ dvRequests' = dvRequests \cup
                       {Request("POST", "/api/v1/dispositivosGps/add", FALSE)}
                  /\ UNCHANGED <<dvSubmitError, dvIsSubmitting>>
  /\ UNCHANGED <<dvSubmitSuccess, dvFormVars, dvListVars, dvDeleteVars, dvBackend>>

\* handleGuardarNuevo after POST /api/v1/dispositivosGps/add settled: "ok"
\* (the backend stored the record), "rejected" or "thrown".
backendSettled(outcome) ==
  /\ UNCHANGED notDisp
  /\ dvCall.pc = "awaitBackend"
  /\ IF outcome = "ok"
     THEN /\ dvBackend' = dvBackend \cup
               {[api |-> Obj([dvCall.backendBody.v EXCEPT
                               !.idDispositivo = Num(dvCall.traccarDevice + 1)]),
                 traccarDevice |-> dvCall.traccarDevice,
                 present |-> TRUE]}
          /\ dvSubmitSuccess' = "Dispositivo registrado correctamente."
          /\ nuevoCodigo' = <<>>
          /\ nuevoModelo' = <<>>
          /\ query' = <<>>
          /\ searchTerm' = <<"a", "l", "l">>
          /\ page' = 0
          /\ reloadKey' = reloadKey + 1
          /\ listEffectRerun(0)
          /\ dvIsSubmitting' = FALSE
          /\ dvCall' = [dvCall EXCEPT !.pc = "idle", !.backendOutcome = "ok"]
          /\ UNCHANGED <<dvSubmitError, dvRequests>>
     ELSE /\ guardarNuevoCatch([dvCall EXCEPT !.backendOutcome = outcome,
                                              !.error = "Error al registrar el dispositivo"])
          /\ UNCHANGED <<dvBackend, dvSubmitSuccess, dvFormVars, query, searchTerm, page,
                         reloadKey, dvLoading, dvError, dvFetch>>
  /\ UNCHANGED <<dvToken, dispositivos, selectedDispositivo, size, totalElements, totalPages,
                 isFirstPage, isLastPage, dvDeleteVars, traccar>>

\* handleGuardarNuevo after the reverting DELETE settled; its result is not
\* inspected and a thrown fetch is caught.
cleanupSettled(outcome) ==
  /\ UNCHANGED notDisp
  /\ dvCall.pc = "awaitCleanup"
  /\ traccar' = IF outcome = "ok" THEN traccarDelete(traccar, dvCall.deletes[Len(dvCall.deletes)])
                ELSE traccar
  /\ guardarNuevoFinished(dvCall)
  /\ UNCHANGED <<dvSubmitSuccess, dvFormVars, dvListVars, dvDeleteVars, dvBackend, dvRequests>>

\* The finally block of handleEliminarDispositivo and the end of call j.
eliminarFinished(j, feedback) ==
  /\ deleteFeedback' = feedback
  /\ deletingId' = JsNull
  /\ dvDeletes' = [k \in 1..(Len(dvDeletes) - 1) |-> IF k < j THEN dvDeletes[k] ELSE dvDeletes[k + 1]]

\* Calls of handleEliminarDispositivo that may be suspended at a time.
MaxDeletes == 2

\* handleEliminarDispositivo from the click on row i to its first await. The
\* button of a row is disabled while deletingId is that row's id.
handleEliminarDispositivo(i, confirmado) ==
  /\ UNCHANGED notDisp
  /\ i \in 1..Len(dispositivos)
  /\ deletingId # dispositivos[i].id
  /\ Len(dvDeletes) < MaxDeletes
  /\ LET dispositivo == dispositivos[i]
         traccarId == sanitize(dispositivo.codigo)
     IN IF dvToken = ""
        THEN /\ deleteFeedback' = [type |-> "error",
                                   message |-> "No se encontro un token de autenticacion."]
             /\ UNCHANGED <<deletingId, dvDeletes, dvRequests>>
        ELSE IF traccarId = <<>>
        THEN /\ deleteFeedback' =
                  [type |-> "error",
                   message |-> "El dispositivo no tiene un identificador valido en Traccar."]
             /\ UNCHANGED <<deletingId, dvDeletes, dvRequests>>
        ELSE IF ~confirmado
        THEN UNCHANGED <<deleteFeedback, deletingId, dvDeletes, dvRequests>>
        ELSE /\ deletingId' = dispositivo.id
             /\ deleteFeedback' = NoFeedback
             /\ dvDeletes' = Append(dvDeletes, [pc |-> "awaitTraccar", dispositivo |-> dispositivo,
                                                segment |-> encodeURIComponent(Str(traccarId)),
                                                traccarOutcome |-> "pending"])
             /\ dvRequests' = dvRequests \cup
                  {Request("DELETE", "traccar:/api/devices/{id}", confirmado)}
  /\ UNCHANGED <<dvFormVars, dvListVars, dvSubmitVars, dvServers>>

\* A variant of traccarResponseOk that lets every answered Traccar DELETE pass.
traccarResponseOk_Always(outcome) == outcome \in {"ok", "rejected"}

\* The test of traccarResponse.ok in handleEliminarDispositivo: a DELETE that
\* was thrown never reaches it, one that was answered passes when ok.
traccarResponseOk(outcome) == outcome = "ok"

\* handleEliminarDispositivo (call j) after the Traccar DELETE settled. Traccar
\* answers ok when it removed the device the path names.
eliminarTraccarSettled(j, outcome) ==
  /\ UNCHANGED notDisp
  /\ j \in 1..Len(dvDeletes)
  /\ dvDeletes[j].pc = "awaitTraccar"
  /\ outcome = "ok" => \E d \in traccar : d.alive /\ natToChars(d.id) = dvDeletes[j].segment
  /\ traccar' = IF outcome = "ok" THEN traccarDelete(traccar, dvDeletes[j].segment) ELSE traccar
  /\ IF traccarResponseOk(outcome)
     THEN /\ dvDeletes' = [dvDeletes EXCEPT ![j].pc = "awaitBackend", ![j].traccarOutcome = outcome]
          /\ dvRequests' = dvRequests \cup
               {Request("DELETE", "/api/v1/dispositivosGps/delete/{id}", TRUE)}
          /\ UNCHANGED <<deleteFeedback, deletingId>>
     ELSE /\ eliminarFinished(j, [type |-> "error",
                                  message |-> "No se pudo eliminar el dispositivo en Traccar"])
          /\ UNCHANGED dvRequests
  /\ UNCHANGED <<dvFormVars, dvListVars, dvSubmitVars, dvBackend>>

\* handleEliminarDispositivo (call j) after the backend DELETE settled: "ok",
\* "rejected", "thrown", or "code" (ok status with an error code in the body).
eliminarBackendSettled(j, outcome) ==
  /\ UNCHANGED notDisp
  /\ j \in 1..Len(dvDeletes)
  /\ dvDeletes[j].pc = "awaitBackend"
  /\ IF outcome = "ok"
     THEN /\ \E r \in presentIn(dvBackend) :
               Str(String(field(r.api, "idDispositivo"))) = dvDeletes[j].dispositivo.id
          /\ dvBackend' = {IF Str(String(field(r.api, "idDispositivo"))) = dvDeletes[j].dispositivo.id
                           THEN [r EXCEPT !.present = FALSE] ELSE r : r \in dvBackend}
          /\ eliminarFinished(j, [type |-> "success",
                                  message |-> "Dispositivo GPS eliminado correctamente."])
          /\ reloadKey' = reloadKey + 1
          /\ listEffectRerun(page)
          /\ selectedDispositivo' =
               IF selectedDispositivo # NoDispositivo
                  /\ selectedDispositivo.id = dvDeletes[j].dispositivo.id
               THEN NoDispositivo ELSE selectedDispositivo
     ELSE /\ eliminarFinished(j, [type |-> "error", message |-> "No se pudo eliminar el dispositivo"])
          /\ UNCHANGED <<dvBackend, reloadKey, dvLoading, dvError, dvFetch, selectedDispositivo>>
  /\ UNCHANGED <<dvToken, query, searchTerm, dispositivos, page, size, totalElements, totalPages,
                 isFirstPage, isLastPage, dvFormVars, dvSubmitVars, traccar, dvRequests>>

\* A device registered through this screen in an earlier session: Traccar's
\* device k and the backend's record of it.
RegisteredDevice(k) ==
  [api |-> Obj([idDispositivo |-> Num(k + 1), codigo |-> Str(natToChars(k)),
                modelo |-> Str(<<"g">>), activo |-> Num(1), status |-> Num(1)]),
   traccarDevice |-> k,
   present |-> TRUE]

\* The list and the deletions of a screen that shows registered devices.
DeletesNext ==
  \/ \E resp \in DispositivosResponses : obtenerDispositivos(resp)
  \/ \E i \in 1..Len(dispositivos) : \E confirmado \in BOOLEAN : handleEliminarDispositivo(i, confirmado)
  \/ \E j \in 1..Len(dvDeletes) : \E outcome \in {"ok", "rejected", "thrown"} :
       eliminarTraccarSettled(j, outcome)
  \/ \E j \in 1..Len(dvDeletes) : \E outcome \in {"ok", "rejected", "thrown", "code"} :
       eliminarBackendSettled(j, outcome)

DispNext ==
  \/ \E resp \in DispositivosResponses : obtenerDispositivos(resp)
  \/ \E i \in 1..Len(dispositivos) : toggleDetalle(i)
  \/ \E value \in CodigoTexts : setNuevoCodigo(value)
  \/ \E value \in ModeloTexts : setNuevoModelo(value)
  \/ handleGuardarNuevo
  \/ \E outcome \in {"thrown", "rejected"} : traccarSettled(outcome, JsUndef)
  \/ \E idField \in TraccarIdFields(Cardinality(traccar) + 1) : traccarSettled("created", idField)
  \/ \E outcome \in {"ok", "rejected", "thrown"} : backendSettled(outcome)
  \/ \E outcome \in {"ok", "rejected", "thrown"} : cleanupSettled(outcome)
  \/ \E i \in 1..Len(dispositivos) : \E confirmado \in BOOLEAN : handleEliminarDispositivo(i, confirmado)
  \/ \E j \in 1..Len(dvDeletes) : \E outcome \in {"ok", "rejected", "thrown"} :
       eliminarTraccarSettled(j, outcome)
  \/ \E j \in 1..Len(dvDeletes) : \E outcome \in {"ok", "rejected", "thrown", "code"} :
       eliminarBackendSettled(j, outcome)

\* ------------------------------------------------------------------------
\* Claims about Dispositivos and about confirm dialogs
\* ------------------------------------------------------------------------

\* C7 (as claimed): every POST, PUT or DELETE that was sent was sent by a
\* handler invocation in which the user had accepted a confirm dialog.
C7_MutationsConfirmed ==
  \A r \in dvRequests \cup psRequests :
    r.method \in {"POST", "PUT", "DELETE"} => r.confirmado

\* The backend DELETE of handleEliminarDispositivo.
backendDelete == Request("DELETE", "/api/v1/dispositivosGps/delete/{id}", TRUE)

\* The calls of handleEliminarDispositivo whose backend DELETE is in flight.
awaitingBackend(deletes) == {j \in 1..Len(deletes) : deletes[j].pc = "awaitBackend"}

recordOf(dispositivo) ==
  {r \in dvBackend : Str(String(field(r.api, "idDispositivo"))) = dispositivo.id}

\* C8: the backend POST of handleGuardarNuevo is in flight only after Traccar
\* answered ok with a non-empty id, and its codigo is the decimal string of
\* the device Traccar created; every record registered that way keeps that
\* codigo; and every Traccar DELETE of handleEliminarDispositivo is addressed
\* by the trimmed codigo of its row, which for a record registered by
\* handleGuardarNuevo is the identifier of the Traccar device created for it.
C8_TraccarFirstAndSameDevice ==
  /\ dvCall.pc = "awaitBackend" =>
       /\ dvCall.traccarOutcome = "ok"
       /\ dvCall.traccarDeviceId \notin {JsUndef, JsNull, Str(<<>>)}
       /\ \E d \in traccar : d.id = dvCall.traccarDevice
       /\ field(dvCall.backendBody, "codigo") = Str(natToChars(dvCall.traccarDevice))
  /\ \A r \in dvBackend :
       r.traccarDevice # 0 => field(r.api, "codigo") = Str(natToChars(r.traccarDevice))
  /\ \A j \in 1..Len(dvDeletes) :
       /\ dvDeletes[j].segment = encodeChars(trim(dvDeletes[j].dispositivo.codigo.v))
       /\ \A r \in recordOf(dvDeletes[j].dispositivo) :
            r.traccarDevice # 0 => dvDeletes[j].segment = natToChars(r.traccarDevice)

\* C8 witness: the Traccar DELETE for a device that this session registered
\* is in flight.
C8_Witness ==
  \E j \in 1..Len(dvDeletes) :
    /\ dvDeletes[j].pc = "awaitTraccar"
    /\ \E r \in recordOf(dvDeletes[j].dispositivo) : r.traccarDevice # 0

\* C9: a run of handleGuardarNuevo in which Traccar returned a device id and
\* the backend POST then failed ends only after exactly one DELETE addressed
\* to that Traccar id was sent, with submitError set and isSubmitting false;
\* and the steps of the run after the failure change neither the form fields
\* nor the list parameters.
C9_RegistrationCompensated ==
  [][ /\ (dvCall.pc # "idle" /\ dvCall'.pc = "idle"
            /\ dvCall'.backendOutcome \in {"rejected", "thrown"})
           => /\ dvCall'.deletes = <<natToChars(dvCall'.traccarDevice)>>
              /\ dvCall'.deletes = <<encodeURIComponent(dvCall'.traccarDeviceId)>>
              /\ dvSubmitError' # Null
              /\ ~dvIsSubmitting'
      /\ (dvCall.pc \in {"awaitBackend", "awaitCleanup"}
            /\ dvCall' # dvCall /\ dvCall'.backendOutcome \in {"rejected", "thrown"})
           => UNCHANGED <<nuevoCodigo, nuevoModelo, query, searchTerm, page, size, reloadKey>>
    ]_vars

\* C9 witness: a run ended after a thrown backend POST and one reverting
\* DELETE.
C9_Witness ==
  /\ dvCall.pc = "idle"
  /\ dvCall.traccarOutcome = "ok"
  /\ dvCall.backendOutcome = "thrown"
  /\ Len(dvCall.deletes) = 1
  /\ dvSubmitError = "Error al registrar el dispositivo"

\* C10 (as claimed): a run of handleGuardarNuevo in which the Traccar POST
\* failed, or answered without identifier (undefined, null or the empty
\* string), sends no Traccar DELETE.
C10_NoDeleteWithoutDevice ==
  (dvCall.traccarOutcome \in {"thrown", "rejected"}
     \/ (dvCall.traccarOutcome = "ok" /\ dvCall.traccarDeviceId \in {JsUndef, JsNull, Str(<<>>)}))
    => dvCall.deletes = <<>>

\* ------------------------------------------------------------------------
\* PanelMonitoreo (EntregaObservacion.tsx, second component): data
\* ------------------------------------------------------------------------

\* Programaciones the backend holds.
MaxPanelItems == 2

\* Calls of handleDelete that may be suspended at a time.
MaxPanelDeletes == 1

\* UTF-16 code unit of the characters in use (the relational operators of
\* JavaScript compare strings by code units).
charCode(c) ==
  CASE c = " " -> 32
    [] c = "-" -> 45
    [] isDigit(c) -> 48 + digitValue(c)
    [] c = ":" -> 58
    [] OTHER -> 84

\* a < b on strings.
RECURSIVE strLess(_, _)
strLess(a, b) ==
  IF b = <<>> THEN FALSE
  ELSE IF a = <<>> THEN TRUE
  ELSE IF Head(a) = Head(b) THEN strLess(Tail(a), Tail(b))
  ELSE charCode(Head(a)) < charCode(Head(b))

\* String.prototype.padStart(width, '0') of a natural number.
padStart(n, width) ==
  LET digits == natToChars(n)
  IN [k \in 1..(width - Len(digits)) |-> "0"] \o digits

\* The text of a calendar date the way toISOString().split('T')[0] and a
\* date input write it.
IsoDate(year, month, day) ==
  padStart(year, 4) \o <<"-">> \o padStart(month, 2) \o <<"-">> \o padStart(day, 2)

\* const getTodayIsoDate = (): string
getTodayIsoDate == IsoDate(2026, 11, 6)
todayIsoDate == getTodayIsoDate

Yesterday == IsoDate(2026, 11, 5)
Tomorrow == IsoDate(2026, 11, 7)
\* A date whose year has five digits, which a date input accepts.
FarDate == IsoDate(30000, 1, 1)
\* A past date written day first, the order formatDateForApi sends.
DayFirstDate == padStart(30, 2) \o <<"-">> \o padStart(12, 2) \o <<"-">> \o padStart(2020, 4)

\* fechaEntrega as the backend may send it: absent, a date, a timestamp, a
\* date written day first.
FechaApiValues ==
  {JsNull, Str(Yesterday), Str(Tomorrow \o <<"T", "0", "8", ":", "0", "0">>), Str(DayFirstDate)}

\* What the user may leave in the date input of the edit form.
EditFechaTexts == {<<>>, Yesterday, FarDate}

\* What the user may type in the Nro. field and pick in the date filters.
NroTexts == {<<>>, <<" ", "7">>}
FiltroFechaTexts == {<<>>, todayIsoDate}

\* ProgramacionApi records without vehiculo, conductor or dispositivo.
ProgramacionApi(id, fecha, estado) ==
  Obj([idProgramacion |-> Num(id), fechaEntrega |-> fecha, estadoEntrega |-> estado])

NoProgramacion == JsNull
NoStatus == [type |-> "none"]

\* ------------------------------------------------------------------------
\* PanelMonitoreo: helpers
\* ------------------------------------------------------------------------

\* value.split('-')
RECURSIVE splitDash(_)
splitDash(cs) ==
  IF \A i \in 1..Len(cs) : cs[i] # "-" THEN <<cs>>
  ELSE LET k == CHOOSE i \in 1..Len(cs) : cs[i] = "-" /\ \A j \in 1..(i - 1) : cs[j] # "-"
       IN <<SubSeq(cs, 1, k - 1)>> \o splitDash(SubSeq(cs, k + 1, Len(cs)))

\* const formatDateForApi = (value: string): string
formatDateForApi(value) ==
  IF value = <<>> THEN <<>>
  ELSE LET parts == splitDash(value) IN
       IF Len(parts) # 3 THEN <<>>
       ELSE IF parts[1] = <<>> \/ parts[2] = <<>> \/ parts[3] = <<>> THEN <<>>
       ELSE parts[3] \o <<"-">> \o parts[2] \o <<"-">> \o parts[1]

\* trimmed.match(/^(\d{4})-(\d{2})-(\d{2})/)
matchesIsoDate(cs) ==
  /\ Len(cs) >= 10
  /\ \A i \in {1, 2, 3, 4, 6, 7, 9, 10} : isDigit(cs[i])
  /\ cs[5] = "-" /\ cs[8] = "-"

\* const normalizeIsoDateString = (value?: string | null): string | null
normalizeIsoDateString(value) ==
  IF value.t # "str" THEN JsNull
  ELSE LET trimmed == trim(value.v) IN
       IF trimmed = <<>> THEN JsNull
       ELSE IF matchesIsoDate(trimmed) THEN Str(SubSeq(trimmed, 1, 10))
       ELSE Str(trimmed)

\* const parseNumber = (value: unknown): number | null
parseNumber(value) ==
  IF value.t = "num" THEN value
  ELSE IF value.t = "str"
  THEN LET normalized == trim(value.v) IN
       IF normalized = <<>> THEN JsNull
       ELSE IF Number(normalized) = NaN THEN JsNull ELSE Number(normalized)
  ELSE JsNull

\* const buildVehiculoDescripcion = (vehiculo): string, for the records in use
buildVehiculoDescripcion(vehiculo) ==
  IF ~truthy(vehiculo) THEN "Sin vehiculo asignado" ELSE "placa - marca - modelo"

\* const isEstadoEntregado = (estado): boolean
isEstadoEntregado(estado) ==
  IF estado.t \in {"null", "undefined"} THEN FALSE
  ELSE LET numeric == IF estado.t = "num" THEN estado ELSE Number(String(estado))
       IN numeric = Num(2)

\* const mapProgramacion = (programacion: ProgramacionApi): ProgramacionItem
mapProgramacion(programacion) ==
  LET vehiculoRaw == orElse(field(programacion, "vehiculo"),
                            orElse(field(programacion, "vehiculoAsignado"), JsNull))
      conductorRaw == orElse(field(programacion, "conductor"),
                             orElse(field(programacion, "conductorAsignado"), JsNull))
  IN [id |-> String(field(programacion, "idProgramacion")),
      fechaEntrega |-> normalizeIsoDateString(orElse(field(programacion, "fechaEntrega"), JsNull)),
      estadoEntrega |-> parseNumber(field(programacion, "estadoEntrega")),
      vehiculoDescripcion |-> buildVehiculoDescripcion(vehiculoRaw),
      conductorNombre |-> IF truthy(conductorRaw) THEN sanitize(field(conductorRaw, "nombreCompleto"))
                          ELSE <<>>,
      dispositivoId |-> JsNull]

\* The rows of the backend's answer to /programacion-distribucion/all: the
\* records it still holds, in their order.
RECURSIVE dataOf(_)
dataOf(records) ==
  IF records = <<>> THEN <<>>
  ELSE (IF Head(records).present THEN <<Head(records).api>> ELSE <<>>) \o dataOf(Tail(records))

\* The row of the list with the given id, when there is one.
rowsWithId(list, id) == {i \in 1..Len(list) : list[i].id = id}

\* isEditing of some row: the edit form is on the screen.
editFormShown ==
  /\ editingProgramacion # NoProgramacion
  /\ rowsWithId(items, editingProgramacion.id) # {}

\* ------------------------------------------------------------------------
\* PanelMonitoreo: the component
\* ------------------------------------------------------------------------

\* The programaciones of the backend when the panel mounts: the first is in
\* process with any of the dates, the others are delivered.
PanelBackends ==
  {[k \in 1..MaxPanelItems |->
      [api |-> IF k = 1 THEN ProgramacionApi(k, fecha, Num(0))
               ELSE ProgramacionApi(k, Str(Tomorrow), Str(<<"2">>)),
       present |-> TRUE]] :
     fecha \in FechaApiValues}

\* The query the list effect sends for the committed search.
panelQuery(params) ==
  [nro |-> trim(params.nro),
   desde |-> formatDateForApi(params.desde),
   hasta |-> formatDateForApi(params.hasta)]

\* State after the component mounted: the useState initial values and the
\* first run of the list effect.
PanelInit ==
  /\ pmToken \in {"tok", ""}
  /\ nro = <<>> /\ pmDesde = <<>> /\ pmHasta = <<>>
  /\ searchParams = [nro |-> <<>>, desde |-> <<>>, hasta |-> <<>>]
  /\ items = <<>>
  /\ pmLoading = (pmToken # "")
  /\ pmError = Null
  /\ editingProgramacion = NoProgramacion
  /\ editFecha = <<>>
  /\ editSubmitting = FALSE
  /\ deleteInProgress = JsNull
  /\ mutationError = Null
  /\ actionStatus = NoStatus
  /\ pmFetch = IF pmToken # "" THEN [live |-> TRUE, query |-> panelQuery(searchParams)] ELSE NoFetch
  /\ pmEdit = Idle
  /\ pmDeletes = <<>>
  /\ pmDeleteDone = "none"
  /\ pmBackend \in PanelBackends

\* The list effect, run again because searchParams changed.
panelEffect(params) ==
  IF pmToken = ""
  THEN /\ items' = <<>>
       /\ UNCHANGED <<pmLoading, pmError, pmFetch>>
  ELSE /\ pmLoading' = TRUE
       /\ pmError' = Null
       /\ pmFetch' = [live |-> TRUE, query |-> panelQuery(params)]
       /\ UNCHANGED items

\* fetchProgramaciones after the request of the live effect settled: "ok",
\* "sinData" (ok, without a data array), "rejected" or "thrown". A request of
\* an effect that was cleaned up changes nothing.
fetchProgramaciones(outcome) ==
  /\ UNCHANGED notPanel
  /\ pmFetch.live
  /\ IF outcome = "ok"
     THEN /\ items' = mapSeq(dataOf(pmBackend), mapProgramacion)
          /\ UNCHANGED pmError
     ELSE IF outcome = "sinData"
     THEN /\ items' = <<>>
          /\ UNCHANGED pmError
     ELSE /\ pmError' = "No se pudieron cargar las programaciones. Intenta nuevamente."
          /\ items' = <<>>
  /\ pmLoading' = FALSE
  /\ pmFetch' = NoFetch
  /\ UNCHANGED <<pmSearchVars, pmEditVars, pmDeleteVars, actionStatus, pmBackend>>

setNro(value) ==
  /\ UNCHANGED notPanel
  /\ nro # value
  /\ nro' = value
  /\ UNCHANGED <<pmToken, pmDesde, pmHasta, searchParams, pmListVars, pmEditVars, pmDeleteVars,
                 actionStatus, pmBackend>>

setDesde(value) ==
  /\ UNCHANGED notPanel
  /\ pmDesde # value
  /\ pmDesde' = value
  /\ UNCHANGED <<pmToken, nro, pmHasta, searchParams, pmListVars, pmEditVars, pmDeleteVars,
                 actionStatus, pmBackend>>

setHasta(value) ==
  /\ UNCHANGED notPanel
  /\ pmHasta # value
  /\ pmHasta' = value
  /\ UNCHANGED <<pmToken, nro, pmDesde, searchParams, pmListVars, pmEditVars, pmDeleteVars,
                 actionStatus, pmBackend>>

\* PanelMonitoreo.handleSearch; the Buscar button is disabled while loading.
\* The new searchParams object runs the list effect again.
panelHandleSearch ==
  /\ UNCHANGED notPanel
  /\ ~pmLoading
  /\ searchParams' = [nro |-> trim(nro), desde |-> pmDesde, hasta |-> pmHasta]
  /\ panelEffect(searchParams')
  /\ UNCHANGED <<pmToken, nro, pmDesde, pmHasta, pmEditVars, pmDeleteVars, actionStatus, pmBackend>>

\* PanelMonitoreo.handleClear; the Limpiar button is disabled while loading.
panelHandleClear ==
  /\ UNCHANGED notPanel
  /\ ~pmLoading
  /\ nro' = <<>> /\ pmDesde' = <<>> /\ pmHasta' = <<>>
  /\ searchParams' = [nro |-> <<>>, desde |-> <<>>, hasta |-> <<>>]
  /\ panelEffect(searchParams')
  /\ UNCHANGED <<pmToken, pmEditVars, pmDeleteVars, actionStatus, pmBackend>>

\* const closeEditForm = () => { ... }
closeEditForm ==
  /\ editingProgramacion' = NoProgramacion
  /\ editFecha' = <<>>
  /\ mutationError' = Null

\* The Cancelar button of the edit form, disabled while editSubmitting.
clickCancelar ==
  /\ UNCHANGED notPanel
  /\ editFormShown
  /\ ~editSubmitting
  /\ closeEditForm
  /\ UNCHANGED <<pmSearchVars, pmListVars, editSubmitting, pmEdit, pmDeleteVars, actionStatus,
                 pmBackend>>

\* initialDate of openEditForm.
initialDate(programacion) ==
  LET normalizedProgramacionDate == normalizeIsoDateString(programacion.fechaEntrega)
  IN IF truthy(normalizedProgramacionDate) /\ ~strLess(normalizedProgramacionDate.v, todayIsoDate)
     THEN normalizedProgramacionDate.v
     ELSE todayIsoDate

\* openEditForm for row i; the button is disabled for a delivered row and,
\* while editSubmitting, for the row being edited.
openEditForm(i) ==
  /\ UNCHANGED notPanel
  /\ i \in 1..Len(items)
  /\ ~isEstadoEntregado(items[i].estadoEntrega)
  /\ ~(editSubmitting /\ editingProgramacion # NoProgramacion /\ editingProgramacion.id = items[i].id)
  /\ LET programacion == items[i] IN
     IF isEstadoEntregado(programacion.estadoEntrega)
     THEN UNCHANGED <<editingProgramacion, editFecha, mutationError, actionStatus>>
     ELSE IF editingProgramacion # NoProgramacion /\ editingProgramacion.id = programacion.id
     THEN /\ closeEditForm
          /\ UNCHANGED actionStatus
     ELSE /\ actionStatus' = NoStatus
          /\ mutationError' = Null
          /\ editingProgramacion' = programacion
          /\ editFecha' = initialDate(programacion)
  /\ UNCHANGED <<pmSearchVars, pmListVars, editSubmitting, pmEdit, pmDeleteVars, pmBackend>>

\* The date input of the edit form.
setEditFecha(value) ==
  /\ UNCHANGED notPanel
  /\ editFormShown
  /\ editFecha # value
  /\ editFecha' = value
  /\ UNCHANGED <<pmSearchVars, pmListVars, editingProgramacion, editSubmitting, mutationError, pmEdit,
                 pmDeleteVars, actionStatus, pmBackend>>

\* The checks of handleEditSubmit on the normalized date: the message it
\* leaves in mutationError, Null when the date passes.
fechaRechazada(normalizedDate) ==
  IF ~truthy(normalizedDate)
  THEN "Selecciona una fecha valida con el formato yyyy-MM-dd."
  ELSE IF strLess(normalizedDate.v, todayIsoDate)
  THEN "Selecciona una fecha igual o posterior a la fecha actual."
  ELSE Null

\* handleEditSubmit from the submit of the edit form to its await; the
\* Guardar button is disabled while editSubmitting.
handleEditSubmit ==
  /\ UNCHANGED notPanel
  /\ editFormShown
  /\ ~editSubmitting
  /\ LET normalizedDate == normalizeIsoDateString(Str(editFecha)) IN
     IF fechaRechazada(normalizedDate) # Null
     THEN /\ mutationError' = fechaRechazada(normalizedDate)
          /\ UNCHANGED <<actionStatus, editSubmitting, pmEdit>>
     ELSE /\ actionStatus' = NoStatus
          /\ mutationError' = Null
          /\ editSubmitting' = TRUE
          /\ pmEdit' = [pc |-> "awaitPut", id |-> editingProgramacion.id, date |-> normalizedDate.v]
  /\ UNCHANGED <<pmSearchVars, pmListVars, editingProgramacion, editFecha, pmDeleteVars, pmBackend>>

\* The backend's records after it stored a new date for a programacion.
updateFecha(records, id, date) ==
  [k \in 1..Len(records) |->
     IF String(field(records[k].api, "idProgramacion")) = id
     THEN [records[k] EXCEPT !.api = Obj([records[k].api.v EXCEPT !.fechaEntrega = Str(date)])]
     ELSE records[k]]

\* The records the backend holds with the given id.
heldWithId(records, id) ==
  {k \in 1..Len(records) :
     records[k].present /\ String(field(records[k].api, "idProgramacion")) = id}

\* handleEditSubmit after the PUT settled: "ok", "rejected" or "thrown".
editSettled(outcome) ==
  /\ UNCHANGED notPanel
  /\ pmEdit.pc = "awaitPut"
  /\ outcome = "ok" => heldWithId(pmBackend, pmEdit.id) # {}
  /\ pmBackend' = IF outcome = "ok" THEN updateFecha(pmBackend, pmEdit.id, pmEdit.date) ELSE pmBackend
  /\ IF outcome = "ok"
     THEN /\ items' = [k \in 1..Len(items) |->
                         IF items[k].id = pmEdit.id
                         THEN [items[k] EXCEPT !.fechaEntrega = Str(pmEdit.date)]
                         ELSE items[k]]
          /\ actionStatus' = [type |-> "success", message |-> "Fecha actualizada correctamente."]
          /\ closeEditForm
     ELSE /\ mutationError' = "No se pudo actualizar la fecha"
          /\ actionStatus' = [type |-> "error",
                              message |-> "No se pudo actualizar la fecha. Intenta nuevamente."]
          /\ UNCHANGED <<items, editingProgramacion, editFecha>>
  /\ editSubmitting' = FALSE
  /\ pmEdit' = Idle
  /\ UNCHANGED <<pmSearchVars, pmLoading, pmError, pmFetch, pmDeleteVars>>

\* handleDelete from the click on row i to its await; the button of a row is
\* disabled while deleteInProgress is that row's id.
handleDelete(i, confirmed) ==
  /\ UNCHANGED notPanel
  /\ i \in 1..Len(items)
  /\ deleteInProgress # Str(items[i].id)
  /\ confirmed => Len(pmDeletes) < MaxPanelDeletes
  /\ IF ~confirmed
     THEN /\ pmDeleteDone' = "declined"
          /\ UNCHANGED <<actionStatus, deleteInProgress, pmDeletes>>
     ELSE /\ actionStatus' = NoStatus
          /\ deleteInProgress' = Str(items[i].id)
          /\ UNCHANGED pmDeleteDone
          /\ pmDeletes' = Append(pmDeletes,
               [id |-> items[i].id,
                editingId |-> IF editingProgramacion = NoProgramacion THEN JsNull
                              ELSE Str(editingProgramacion.id)])
  /\ UNCHANGED <<pmSearchVars, pmListVars, pmEditVars, pmBackend>>

\* A variant of the removal that drops the deleted row and every row after it.
withoutItem_Truncating(list, id) ==
  IF rowsWithId(list, id) = {} THEN list
  ELSE SubSeq(list, 1, (CHOOSE i \in rowsWithId(list, id) : \A j \in rowsWithId(list, id) : i <= j) - 1)

\* prev.filter((item) => item.id !== programacion.id)
withoutItem(list, id) == filterSeq(list, LAMBDA item : item.id # id)

\* handleDelete (call j) after the DELETE settled: "ok", "rejected" or
\* "thrown".
deleteSettled(j, outcome) ==
  /\ UNCHANGED notPanel
  /\ j \in 1..Len(pmDeletes)
  /\ outcome = "ok" => heldWithId(pmBackend, pmDeletes[j].id) # {}
  /\ pmBackend' = IF outcome = "ok"
                  THEN [k \in 1..Len(pmBackend) |->
                          IF k \in heldWithId(pmBackend, pmDeletes[j].id)
                          THEN [pmBackend[k] EXCEPT !.present = FALSE] ELSE pmBackend[k]]
                  ELSE pmBackend
  /\ IF outcome = "ok"
     THEN /\ items' = withoutItem(items, pmDeletes[j].id)
          /\ IF pmDeletes[j].editingId = Str(pmDeletes[j].id)
             THEN closeEditForm
             ELSE UNCHANGED <<editingProgramacion, editFecha, mutationError>>
          /\ actionStatus' = [type |-> "success", message |-> "Programacion eliminada correctamente."]
     ELSE /\ actionStatus' =
               [type |-> "error",
                message |-> "No se pudo eliminar la programacion seleccionada. Intenta nuevamente."]
          /\ UNCHANGED <<items, editingProgramacion, editFecha, mutationError>>
  /\ deleteInProgress' = JsNull
  /\ pmDeletes' = [k \in 1..(Len(pmDeletes) - 1) |-> IF k < j THEN pmDeletes[k] ELSE pmDeletes[k + 1]]
  /\ pmDeleteDone' = IF outcome = "ok" THEN "success" ELSE "error"
  /\ UNCHANGED <<pmSearchVars, pmLoading, pmError, pmFetch, editSubmitting, pmEdit>>

\* The backend records the delivery of programacion k, reported by its
\* conductor with estadoEntrega 2.
entregaRegistrada(k) ==
  /\ UNCHANGED notPanel
  /\ k \in 1..Len(pmBackend)
  /\ pmBackend[k].present
  /\ ~isEstadoEntregado(field(pmBackend[k].api, "estadoEntrega"))
  /\ pmBackend' = [pmBackend EXCEPT ![k].api = Obj([pmBackend[k].api.v EXCEPT !.estadoEntrega = Num(2)])]
  /\ UNCHANGED <<pmSearchVars, pmListVars, pmEditVars, pmDeleteVars, actionStatus>>

\* The steps of the search form and of the list.
PanelSearchNext ==
  \/ \E outcome \in {"ok", "sinData", "rejected", "thrown"} : fetchProgramaciones(outcome)
  \/ \E value \in NroTexts : setNro(value)
  \/ \E value \in FiltroFechaTexts : setDesde(value)
  \/ \E value \in FiltroFechaTexts : setHasta(value)
  \/ panelHandleSearch
  \/ panelHandleClear

\* The steps of the list, the edit form and the deletions, with the search
\* form left as it is when the panel mounts.
PanelNext ==
  \/ \E outcome \in {"ok", "sinData", "rejected", "thrown"} : fetchProgramaciones(outcome)
  \/ panelHandleSearch
  \/ panelHandleClear
  \/ clickCancelar
  \/ \E i \in 1..Len(items) : openEditForm(i)
  \/ \E value \in EditFechaTexts : setEditFecha(value)
  \/ handleEditSubmit
  \/ \E outcome \in {"ok", "rejected", "thrown"} : editSettled(outcome)
  \/ \E i \in 1..Len(items) : \E confirmed \in BOOLEAN : handleDelete(i, confirmed)
  \/ \E j \in 1..Len(pmDeletes) : \E outcome \in {"ok", "rejected", "thrown"} : deleteSettled(j, outcome)
  \/ \E k \in 1..Len(pmBackend) : entregaRegistrada(k)

\* ------------------------------------------------------------------------
\* Claims about PanelMonitoreo
\* ------------------------------------------------------------------------

\* The step in which handleEditSubmit sends its PUT.
putSent == pmEdit.pc = "idle" /\ pmEdit'.pc = "awaitPut"

\* C12 (as claimed): handleEditSubmit never sends the updateFecha PUT for a
\* programacion that the loaded list shows as delivered (estadoEntrega 2).
C12_NoEditOfDelivered ==
  [][putSent => \A i \in rowsWithId(items, pmEdit'.id) : ~isEstadoEntregado(items[i].estadoEntrega)]_vars

\* A text of the form yyyy-MM-dd.
isYyyyMmDd(cs) == Len(cs) = 10 /\ matchesIsoDate(cs)

\* A date of the form yyyy-MM-dd that is today or later.
fromTodayOn(cs) == isYyyyMmDd(cs) /\ ~strLess(cs, todayIsoDate)

\* C13 (as claimed): handleEditSubmit sends the updateFecha PUT only with a
\* date of the form yyyy-MM-dd that is today or later; with an empty date or
\* a date before today it sets mutationError, sends nothing and leaves items,
\* editingProgramacion and actionStatus as they were; and openEditForm
\* preloads editFecha with a date that is today or later.
C13_NewDateNeverInPast ==
  [][/\ putSent => fromTodayOn(pmEdit'.date)
     /\ (handleEditSubmit /\ (trim(editFecha) = <<>>
                               \/ (isYyyyMmDd(trim(editFecha)) /\ strLess(trim(editFecha), todayIsoDate))))
          => /\ mutationError' # Null
             /\ UNCHANGED <<pmEdit, items, editingProgramacion, actionStatus>>
     /\ \A i \in 1..Len(items) :
          (openEditForm(i) /\ editingProgramacion' # NoProgramacion) => fromTodayOn(editFecha')
    ]_vars

\* What every handleDelete call that settled leaves: the list without the
\* deleted programacion and a success status after an ok answer, the list as
\* it was and an error status otherwise, and deleteInProgress null.
deleteSettledFrame ==
  \A j \in 1..Len(pmDeletes) : \A outcome \in {"ok", "rejected", "thrown"} :
    deleteSettled(j, outcome) =>
      /\ IF outcome = "ok"
         THEN /\ Len(items') = Len(items) - Cardinality(rowsWithId(items, pmDeletes[j].id))
              /\ \A k \in 1..Len(items) :
                   LET before == Cardinality({m \in rowsWithId(items, pmDeletes[j].id) : m < k})
                   IN items[k].id # pmDeletes[j].id => items'[k - before] = items[k]
              /\ actionStatus'.type = "success"
         ELSE /\ items' = items
              /\ actionStatus'.type = "error"
      /\ deleteInProgress' = JsNull

\* C20 (as claimed): a handleDelete call changes the list only by removing
\* the deleted programacion after an ok answer, leaves list and status alone
\* when the dialog is declined, leaves the list and sets an error status when
\* the DELETE fails, and in each of the three cases deleteInProgress is null
\* once the call has finished.
C20_DeleteFrame_AsClaimed ==
  [][/\ deleteSettledFrame
     /\ \A i \in 1..Len(items) :
          handleDelete(i, FALSE) =>
            /\ UNCHANGED <<items, actionStatus>>
            /\ deleteInProgress' = JsNull
    ]_vars

\* C20 (amended): as above, except that a declined dialog leaves
\* deleteInProgress as it was (null, or the id of another call's DELETE that
\* is still in flight).
C20_DeleteFrame ==
  [][/\ deleteSettledFrame
     /\ \A i \in 1..Len(items) :
          handleDelete(i, FALSE) => UNCHANGED <<items, actionStatus, deleteInProgress>>
    ]_vars

\* C20 witness: a DELETE was answered ok for the first of two rows, the list
\* is the second row alone, and a dialog was declined since.
C20_Witness ==
  /\ pmDeleteDone = "declined"
  /\ actionStatus.type = "success"
  /\ Len(items) = MaxPanelItems - 1
  /\ \A k \in 1..Len(items) : items[k].id # <<"1">>
  /\ heldWithId(pmBackend, <<"1">>) = {}
  /\ deleteInProgress = JsNull

\* ------------------------------------------------------------------------
\* Paginated lists: Dispositivos.tsx and ProgramarSalida.tsx
\* ------------------------------------------------------------------------

\* Pages the user may step forward to.
MaxPage == 2

\* The largest totalPages the backend reports.
MaxTotalPages == 2

\* Options of the page-size selects the user picks from.
MaxSizeOptions == 2

\* What the user may type in the search field of Dispositivos.
QueryTexts == {<<>>, <<" ", "7">>}

\* The answers of a paginated GET for the given rows: a thrown fetch, the
\* rows as a bare array, or a page with or without totalPages and with or
\* without a last flag that says more pages follow.
PagedAnswers(rows) ==
  {[thrown |-> TRUE, ok |-> FALSE, json |-> JsNull],
   [thrown |-> FALSE, ok |-> TRUE, json |-> Obj([data |-> Arr(rows)])]}
  \cup
  {[thrown |-> FALSE, ok |-> TRUE,
    json |-> Obj([code |-> Num(200),
                  data |-> Obj([content |-> Arr(rows), totalPages |-> pages, last |-> last])])] :
     pages \in {JsUndef} \cup {Num(n) : n \in 0..MaxTotalPages},
     last \in {JsUndef, Bool(FALSE)}}

\* The screen that is mounted.
mounted(screen) == location = <<"menu", screen>>

\* The list effect of Dispositivos after a handler: it runs again when one of
\* page, searchTerm and size changed.
listEffect(changed, newPage, selected) ==
  IF ~changed
  THEN /\ selectedDispositivo' = selected
       /\ UNCHANGED <<dispositivos, totalElements, totalPages, isFirstPage, isLastPage,
                      dvLoading, dvError, dvFetch>>
  ELSE IF dvToken = ""
  THEN /\ dispositivos' = <<>>
       /\ selectedDispositivo' = NoDispositivo
       /\ totalElements' = 0
       /\ totalPages' = 0
       /\ isFirstPage' = TRUE
       /\ isLastPage' = TRUE
       /\ UNCHANGED <<dvLoading, dvError, dvFetch>>
  ELSE /\ listEffectRerun(newPage)
       /\ selectedDispositivo' = selected
       /\ UNCHANGED <<dispositivos, totalElements, totalPages, isFirstPage, isLastPage>>

\* What the list handlers of Dispositivos leave alone.
notDispList == <<dvToken, reloadKey, dvFormVars, dvSubmitVars, dvDeleteVars, dvServers, dvRequests>>

\* onChange of the search field.
setQuery(value) ==
  /\ UNCHANGED notDisp
  /\ query # value
  /\ query' = value
  /\ UNCHANGED <<searchTerm, page, size, dispositivos, selectedDispositivo, totalElements, totalPages,
                 isFirstPage, isLastPage, dvLoading, dvError, dvFetch, notDispList>>

\* Dispositivos.handleSearch; the Buscar button is disabled while loading.
handleSearch ==
  /\ UNCHANGED notDisp
  /\ ~dvLoading
  /\ searchTerm' = IF trim(query) # <<>> THEN trim(query) ELSE <<"a", "l", "l">>
  /\ page' = 0
  /\ listEffect(searchTerm' # searchTerm \/ page' # page, page', selectedDispositivo)
  /\ UNCHANGED <<query, size, notDispList>>

\* Dispositivos.handleClear; the Limpiar button is disabled while loading.
handleClear ==
  /\ UNCHANGED notDisp
  /\ ~dvLoading
  /\ query' = <<>>
  /\ searchTerm' = <<"a", "l", "l">>
  /\ page' = 0
  /\ listEffect(searchTerm' # searchTerm \/ page' # page, page', NoDispositivo)
  /\ UNCHANGED <<size, notDispList>>

\* Dispositivos.handleNextPage.
handleNextPage ==
  /\ UNCHANGED notDisp
  /\ ~(isLastPage \/ dvLoading)
  /\ page < MaxPage
  /\ page' = page + 1
  /\ listEffect(TRUE, page', selectedDispositivo)
  /\ UNCHANGED <<query, searchTerm, size, notDispList>>

\* Dispositivos.handlePreviousPage.
handlePreviousPage ==
  /\ UNCHANGED notDisp
  /\ ~(isFirstPage \/ dvLoading)
  /\ page' = maxOf(page - 1, 0)
  /\ listEffect(page' # page, page', selectedDispositivo)
  /\ UNCHANGED <<query, searchTerm, size, notDispList>>

\* Dispositivos.handlePageSizeChange; the select is disabled while loading.
handlePageSizeChange(value) ==
  /\ UNCHANGED notDisp
  /\ ~dvLoading
  /\ LET parsed == Number(value) IN
     IF parsed = NaN \/ parsed.v <= 0
     THEN UNCHANGED <<size, page, dispositivos, selectedDispositivo, totalElements, totalPages,
                      isFirstPage, isLastPage, dvLoading, dvError, dvFetch>>
     ELSE /\ size' = parsed.v
          /\ page' = 0
          /\ listEffect(size' # size \/ page' # page, page', selectedDispositivo)
  /\ UNCHANGED <<query, searchTerm, notDispList>>

\* The token that useAuthorizedApi hands to Dispositivos changes: the cleanup
\* of the list effect clears isMounted and aborts the live request, which
\* from then on writes nothing, and the effect runs again, returning before
\* obtenerDispositivos when there is no token.
tokenChanged(value) ==
  /\ UNCHANGED notDisp
  /\ value # dvToken
  /\ dvToken' = value
  /\ IF value = ""
     THEN /\ dispositivos' = <<>>
          /\ selectedDispositivo' = NoDispositivo
          /\ totalElements' = 0
          /\ totalPages' = 0
          /\ isFirstPage' = TRUE
          /\ isLastPage' = TRUE
          /\ dvFetch' = NoFetch
          /\ UNCHANGED <<dvLoading, dvError>>
     ELSE /\ listEffectRerun(page)
          /\ UNCHANGED <<dispositivos, selectedDispositivo, totalElements, totalPages,
                         isFirstPage, isLastPage>>
  /\ UNCHANGED <<query, searchTerm, page, size, reloadKey, dvFormVars, dvSubmitVars, dvDeleteVars,
                 dvServers, dvRequests>>

\* The pedidos effect of ProgramarSalida after a handler: it runs again when
\* pedidosPage or pedidosSize changed.
pedidosEffect(changed, newPage, newSize) ==
  IF ~changed
  THEN UNCHANGED <<pedidos, pedidosTotalPages, pedidosTotalElements, esUltimaPaginaPedidos,
                   isLoadingPedidos, pedidosError, psFetch>>
  ELSE IF psToken = ""
  THEN /\ pedidos' = <<>>
       /\ pedidosTotalElements' = 0
       /\ pedidosTotalPages' = 0
       /\ esUltimaPaginaPedidos' = TRUE
       /\ UNCHANGED <<isLoadingPedidos, pedidosError, psFetch>>
  ELSE /\ isLoadingPedidos' = TRUE
       /\ pedidosError' = Null
       /\ psFetch' = [live |-> TRUE, page |-> newPage, size |-> newSize]
       /\ UNCHANGED <<pedidos, pedidosTotalPages, pedidosTotalElements, esUltimaPaginaPedidos>>

isFirstPedidosPage == pedidosPage <= 0

isLastPedidosPage ==
  IF pedidosTotalPages > 0 THEN pedidosPage >= pedidosTotalPages - 1
  ELSE esUltimaPaginaPedidos \/ Len(pedidos) < pedidosSize

\* ProgramarSalida.handleNextPedidosPage.
handleNextPedidosPage ==
  /\ UNCHANGED notProg
  /\ ~(isLastPedidosPage \/ isLoadingPedidos)
  /\ pedidosPage < MaxPage
  /\ pedidosPage' = pedidosPage + 1
  /\ pedidosEffect(TRUE, pedidosPage', pedidosSize)
  /\ UNCHANGED <<pedidosSize, psFormVars, psDisponibles, psSubmitVars>>

\* ProgramarSalida.handlePreviousPedidosPage.
handlePreviousPedidosPage ==
  /\ UNCHANGED notProg
  /\ ~(isFirstPedidosPage \/ isLoadingPedidos)
  /\ pedidosPage' = maxOf(pedidosPage - 1, 0)
  /\ pedidosEffect(pedidosPage' # pedidosPage, pedidosPage', pedidosSize)
  /\ UNCHANGED <<pedidosSize, psFormVars, psDisponibles, psSubmitVars>>

\* ProgramarSalida.handlePedidosPageSizeChange; the select is disabled while
\* the list is loading.
handlePedidosPageSizeChange(value) ==
  /\ UNCHANGED notProg
  /\ ~isLoadingPedidos
  /\ LET newSize == Number(value) IN
     IF newSize = NaN \/ newSize.v <= 0
     THEN UNCHANGED psListVars
     ELSE /\ pedidosSize' = newSize.v
          /\ pedidosPage' = 0
          /\ pedidosEffect(pedidosSize' # pedidosSize \/ pedidosPage' # pedidosPage,
                           pedidosPage', pedidosSize')
  /\ UNCHANGED <<psFormVars, psDisponibles, psSubmitVars>>

\* The list request of Dispositivos settles with one of the paged answers.
dispositivosAnswered ==
  /\ mounted("dispositivos")
  /\ \E resp \in PagedAnswers(listOf(presentIn(dvBackend))) : obtenerDispositivos(resp)

\* The list request of ProgramarSalida settles with one of the paged answers.
pedidosAnswered ==
  /\ mounted("programar-salida")
  /\ \E resp \in PagedAnswers(<<Nota1, Nota2>>) : obtenerNotasSalida(resp)

\* The lists and their controls in the two screens with a paginated list,
\* one of which is mounted.
ListsNext ==
  \/ dispositivosAnswered
  \/ mounted("dispositivos") /\ \E i \in 1..Len(dispositivos) : toggleDetalle(i)
  \/ mounted("dispositivos") /\ \E value \in QueryTexts : setQuery(value)
  \/ mounted("dispositivos") /\ handleSearch
  \/ mounted("dispositivos") /\ handleClear
  \/ mounted("dispositivos") /\ handleNextPage
  \/ mounted("dispositivos") /\ handlePreviousPage
  \/ mounted("dispositivos") /\ \E k \in 1..MaxSizeOptions :
                                   handlePageSizeChange(natToChars(PAGE_SIZES[k]))
  \/ mounted("dispositivos") /\ \E value \in {"tok", ""} : tokenChanged(value)
  \/ pedidosAnswered
  \/ mounted("programar-salida") /\ handleNextPedidosPage
  \/ mounted("programar-salida") /\ handlePreviousPedidosPage
  \/ mounted("programar-salida") /\ \E k \in 1..MaxSizeOptions :
                                       handlePedidosPageSizeChange(natToChars(PEDIDOS_PAGE_SIZES[k]))

\* ------------------------------------------------------------------------
\* Claims about the paginated lists
\* ------------------------------------------------------------------------

\* C14: in Dispositivos and in ProgramarSalida the page index is never
\* negative; a list that a successful load puts on the screen with
\* totalPages > 0 was loaded for a page smaller than totalPages; and a
\* response for a page at or beyond totalPages leaves the list as it was and
\* moves the page index down, to the page for which it asks again.
C14_PageInRange ==
  [][/\ page' >= 0 /\ pedidosPage' >= 0
     /\ (dvFetch.live /\ ~dvFetch'.live /\ dvError' = Null /\ totalPages' > 0)
          => maxOf(dvFetch.page, 0) < totalPages'
     /\ (psFetch.live /\ ~psFetch'.live /\ pedidosError' = Null /\ pedidosTotalPages' > 0)
          => maxOf(psFetch.page, 0) < pedidosTotalPages'
     /\ (dvFetch.live /\ page' # page)
          => /\ dispositivos' = dispositivos /\ totalPages' = totalPages
             /\ page' < page /\ dvFetch' = [live |-> TRUE, page |-> page']
     /\ (psFetch.live /\ pedidosPage' # pedidosPage)
          => /\ pedidos' = pedidos /\ pedidosTotalPages' = pedidosTotalPages
             /\ pedidosPage' < pedidosPage
             /\ psFetch' = [live |-> TRUE, page |-> pedidosPage', size |-> pedidosSize]
    ]_vars

\* C14 witness: the second of two pages of dispositivos is on the screen.
C14_Witness ==
  /\ mounted("dispositivos")
  /\ page = 1 /\ totalPages = 2 /\ ~dvLoading /\ dvError = Null
  /\ dispositivos # <<>>

\* ------------------------------------------------------------------------
\* Claims about logging out
\* ------------------------------------------------------------------------

\* The position of the first call of that name, 0 when it was not made.
callIndex(calls, name) ==
  IF called(calls, name)
  THEN CHOOSE i \in 1..Len(calls) :
         calls[i] = name /\ \A j \in 1..(i - 1) : calls[j] # name
  ELSE 0

\* Every route behind the guard renders the 'Sesion finalizada' message
\* for auth context a, and so does the route on display when it is guarded.
sessionEnded(a) ==
  /\ \A i \in 1..Len(Router) :
       Router[i].el = "guard" => renderRoute(a, Router[i].path) = SessionClosedMessage
  /\ matchRoute(location).el = "guard" => view = SessionClosedMessage

\* A click on the logout item: clearAuth is called, before the alert and
\* before window.close, and the link does not navigate.
logoutClears ==
  ClickLogout =>
    /\ ~auth'.isAuthenticated
    /\ location' = location
    /\ called(navCalls', "preventDefault")
    /\ callIndex(navCalls', "clearAuth") > 0
    /\ callIndex(navCalls', "clearAuth") < callIndex(navCalls', "alert")
    /\ callIndex(navCalls', "clearAuth") < callIndex(navCalls', "window.close")

\* A click on any other sidebar item leaves the auth context alone.
otherItemsKeepAuth ==
  \A url \in Paths \ {LoginUrl} :
    ClickNavItem(url) => auth' = auth /\ ~called(navCalls', "clearAuth")

\* The auth context becomes authenticated again only by a sign-in.
onlySignInRestores ==
  (~auth.isAuthenticated /\ auth'.isAuthenticated) =>
    \E role \in RoleNames : Authenticate(role)

\* C19: a click on the sidebar item whose url is '/auth/login' calls
\* clearAuth (before the alert and before window.close) and does not
\* navigate; a click on any other sidebar item never calls clearAuth; and
\* while auth.isAuthenticated is false, which lasts until a sign-in, every
\* guarded route renders the 'Sesion finalizada' message and no page.
C19_LogoutEndsSession ==
  /\ [](~auth.isAuthenticated => sessionEnded(auth))
  /\ [][logoutClears /\ otherItemsKeepAuth /\ onlySignInRestores]_vars

\* An authenticated user on a guarded page has clicked the logout item: the
\* page is replaced by the message, at the same location.
C19_Witness ==
  /\ called(navCalls, "clearAuth")
  /\ ~auth.isAuthenticated
  /\ matchRoute(location).el = "guard"
  /\ view = SessionClosedMessage

\* ------------------------------------------------------------------------
\* EntregaObservacion
\* ------------------------------------------------------------------------

\* How many times the screen is opened, and how many onSubmit calls can be
\* suspended at once.
MaxObsMounts == 2
MaxObsCalls == 2

\* auth.userId
ConductorIds == {JsNull, Num(0), Num(7)}
\* useParams().productoId and location.state.notaId
ProductoIds == {JsUndef, Str(<<"1", "5">>)}
NotaIds == {JsUndef, JsNull, Str(<<"x">>)}
\* What the user types in the textarea.
ObservacionTexts == {<<>>, <<" ">>, <<" ", "o", "k", " ">>}
\* type EstadoEntregaSelect
EstadoEntregaSelect == {"Entregado", "No Entregado"}

\* const mapEstadoToValue = (estado) => (estado === 'Entregado' ? 2 : 1)
mapEstadoToValue(e) == IF e = "Entregado" THEN 2 ELSE 1

\* const canSubmit = useMemo(() => Boolean(conductorId && salidaDetalleId && observacion.trim()), ...)
\* without the test of the text (mutant).
canSubmit_AnyText ==
  truthy(eoConductorId) /\ truthy(Str(salidaDetalleId))

\* const canSubmit = useMemo(() => Boolean(conductorId && salidaDetalleId && observacion.trim()), ...)
canSubmit ==
  truthy(eoConductorId) /\ truthy(Str(salidaDetalleId)) /\ truthy(Str(trim(observacion)))

\* The route element mounts: useState('') / useState('No Entregado') /
\* useState(false), for the ids of the link that was followed.
ObsInit ==
  /\ eoConductorId \in ConductorIds
  /\ salidaDetalleId \in {orElse(orElse(p, n), Str(<<>>)).v : p \in ProductoIds, n \in NotaIds}
  /\ observacion = <<>>
  /\ eoEstado = "No Entregado"
  /\ isSubmitting = FALSE
  /\ eoMounted = TRUE
  /\ eoInstance = 1
  /\ eoCalls = <<>>
  /\ eoNavigated = "none"

\* <Textarea onChange={(e) => setObservacion(e.target.value)} disabled={isSubmitting}>
setObservacion(value) ==
  /\ UNCHANGED notObs
  /\ eoMounted /\ ~isSubmitting
  /\ observacion' = value
  /\ UNCHANGED <<eoConductorId, salidaDetalleId, eoEstado, isSubmitting, eoMounted,
                 eoInstance, eoCalls, eoNavigated>>

\* <Select onChange={(e) => setEstado(e.target.value)} disabled={isSubmitting}>
setEstado(value) ==
  /\ UNCHANGED notObs
  /\ eoMounted /\ ~isSubmitting
  /\ eoEstado' = value
  /\ UNCHANGED <<eoConductorId, salidaDetalleId, observacion, isSubmitting, eoMounted,
                 eoInstance, eoCalls, eoNavigated>>

\* The body of the POST /api/v1/observacion-entregas/add request.
obsPayload ==
  [idConductor |-> eoConductorId,
   idSalidasProgramadasDetalle |-> Number(salidaDetalleId),
   observacion |-> trim(observacion),
   estadoEntrega |-> mapEstadoToValue(eoEstado),
   status |-> 1]

\* onSubmit up to its await: the guard, the confirm dialog, then
\* setIsSubmitting(true) and the POST.
onSubmit(confirm) ==
  /\ UNCHANGED notObs
  /\ eoMounted
  /\ IF ~canSubmit \/ isSubmitting THEN UNCHANGED eoVars
     ELSE IF ~confirm THEN UNCHANGED eoVars
     ELSE /\ Len(eoCalls) < MaxObsCalls
          /\ isSubmitting' = TRUE
          /\ eoCalls' = Append(eoCalls, [instance |-> eoInstance, payload |-> obsPayload])
          /\ UNCHANGED <<eoConductorId, salidaDetalleId, observacion, eoEstado, eoMounted,
                         eoInstance, eoNavigated>>

\* The sequence without its j-th element.
dropCall(calls, j) == SubSeq(calls, 1, j - 1) \o SubSeq(calls, j + 1, Len(calls))

\* onSubmit after its await: navigate(-1) on an ok response, the alert
\* otherwise, then setIsSubmitting(false), which reaches the state of the
\* instance that made the call only.
submitSettled(j, outcome) ==
  /\ UNCHANGED notObs
  /\ j \in 1..Len(eoCalls)
  /\ eoCalls' = dropCall(eoCalls, j)
  /\ IF outcome = "ok"
     THEN eoMounted' = FALSE /\ eoNavigated' = "submit"
     ELSE UNCHANGED <<eoMounted, eoNavigated>>
  /\ isSubmitting' = IF eoCalls[j].instance = eoInstance THEN FALSE ELSE isSubmitting
  /\ UNCHANGED <<eoConductorId, salidaDetalleId, observacion, eoEstado, eoInstance>>

\* <Button onClick={() => navigate(-1)} disabled={isSubmitting}>Cancelar</Button>
obsCancelar ==
  /\ UNCHANGED notObs
  /\ eoMounted /\ ~isSubmitting
  /\ eoMounted' = FALSE
  /\ eoNavigated' = "cancel"
  /\ UNCHANGED <<eoConductorId, salidaDetalleId, observacion, eoEstado, isSubmitting,
                 eoInstance, eoCalls>>

\* The browser's Back or any other link: the route element unmounts; a
\* request in flight is not aborted.
leaveObservacion ==
  /\ UNCHANGED notObs
  /\ eoMounted
  /\ eoMounted' = FALSE
  /\ UNCHANGED <<eoConductorId, salidaDetalleId, observacion, eoEstado, isSubmitting,
                 eoInstance, eoCalls, eoNavigated>>

\* The user follows the link to the observation form again: a new instance
\* mounts with its initial state.
openObservacion ==
  /\ UNCHANGED notObs
  /\ ~eoMounted
  /\ eoInstance < MaxObsMounts
  /\ eoMounted' = TRUE
  /\ eoInstance' = eoInstance + 1
  /\ observacion' = <<>>
  /\ eoEstado' = "No Entregado"
  /\ isSubmitting' = FALSE
  /\ UNCHANGED <<eoConductorId, salidaDetalleId, eoCalls, eoNavigated>>

ObsNext ==
  \/ \E value \in ObservacionTexts : setObservacion(value)
  \/ \E value \in EstadoEntregaSelect : setEstado(value)
  \/ \E confirm \in BOOLEAN : onSubmit(confirm)
  \/ \E j \in 1..MaxObsCalls, outcome \in {"ok", "notOk", "thrown"} : submitSettled(j, outcome)
  \/ obsCancelar
  \/ leaveObservacion
  \/ openObservacion

\* A step that sends the POST.
obsPostSent == Len(eoCalls') > Len(eoCalls)

\* C18: the POST is sent only when the driver id and the salida-detalle id
\* are present, the text is non-blank after trimming, no earlier submission
\* is still in flight and the confirm dialog was accepted; at most one
\* observation request is in flight at any time; the submission navigates
\* back only after an ok response; and isSubmitting is false once the
\* request has settled, whatever its outcome.
C18_SingleSubmission ==
  /\ [](Len(eoCalls) <= 1)
  /\ [][/\ obsPostSent =>
             /\ truthy(eoConductorId)
             /\ salidaDetalleId # <<>>
             /\ trim(observacion) # <<>>
             /\ eoCalls = <<>>
             /\ onSubmit(TRUE)
        /\ \A j \in 1..MaxObsCalls, outcome \in {"ok", "notOk", "thrown"} :
             submitSettled(j, outcome) =>
               /\ eoNavigated' # eoNavigated => outcome = "ok"
               /\ eoCalls[j].instance = eoInstance => ~isSubmitting']_vars

\* ------------------------------------------------------------------------
\* Reportes: data and the pure functions
\* ------------------------------------------------------------------------

\* Rows in a report response, and fetchReport calls in one session.
MaxReportRows == 2
MaxReportCalls == 2

\* const ESTADO_ORDER: EstadoReporte[]
ESTADO_ORDER == <<"entregado", "en_proceso", "no_entregado">>
\* type EstadoReporte
EstadoReporte == {ESTADO_ORDER[k] : k \in 1..Len(ESTADO_ORDER)}

\* type ProgramacionApi of the report endpoint
ReporteApi(id, estadoEntrega, fecha, conductorApi) ==
  [idProgramacion |-> id, estadoEntrega |-> estadoEntrega, fechaEntrega |-> fecha,
   conductor |-> conductorApi]
ConductorApi(id, nombre) == Obj([idUsuario |-> id, nombreCompleto |-> nombre])

\* The rows the backend answers with: two deliveries of driver 7 on the
\* same day (one with a time part), one without date and without driver,
\* one whose date is not a date and whose driver has neither id nor name.
ReporteRows ==
  { ReporteApi(Num(1), Num(2), Str(IsoDate(2026, 10, 5)), ConductorApi(Num(7), Str(<<"A">>))),
    ReporteApi(Num(2), Num(3), Str(IsoDate(2026, 10, 5) \o <<"T", "0", "8">>),
               ConductorApi(Num(7), Str(<<"A">>))),
    ReporteApi(Num(3), JsNull, JsNull, JsNull),
    ReporteApi(Num(4), Num(2), Str(<<"x">>), ConductorApi(JsUndef, Str(<<" ">>))) }

\* Every response body of at most MaxReportRows rows.
ReporteAnswers ==
  UNION {[1..n -> ReporteRows] : n \in 0..MaxReportRows}

\* value.split('T')[0]
RECURSIVE beforeT(_)
beforeT(cs) ==
  IF cs = <<>> \/ Head(cs) = "T" THEN <<>> ELSE <<Head(cs)>> \o beforeT(Tail(cs))

\* const toDateOnly = (value?: string | null): string | null. Of the texts
\* used here, the ones that are not yyyy-MM-dd are not dates for new Date
\* either.
toDateOnly(value) ==
  IF ~truthy(value) THEN JsNull
  ELSE LET dateOnly == beforeT(value.v) IN
       IF Len(dateOnly) = 10 /\ matchesIsoDate(dateOnly) THEN Str(dateOnly)
       ELSE JsNull

\* const getEstadoFromApi = (value?: number | null): EstadoReporte
getEstadoFromApi(value) ==
  CASE value = Num(2) -> "entregado"
    [] value = Num(3) -> "no_entregado"
    [] OTHER -> "en_proceso"

\* const mapProgramacion = (item: ProgramacionApi): Programacion (Reportes)
mapProgramacionReporte(item) ==
  LET idConductor ==
        IF truthy(item.conductor) /\ item.conductor.v.idUsuario # JsUndef
        THEN Str(String(item.conductor.v.idUsuario)) ELSE JsNull
      nombre == IF item.conductor.t = "obj" THEN item.conductor.v.nombreCompleto ELSE JsUndef
      conductorNombre ==
        IF sanitize(nombre) # <<>> THEN sanitize(nombre)
        ELSE <<"S", "i", "n", " ", "a", "s", "i", "g", "n", "a", "r">>
  IN [id |-> String(item.idProgramacion),
      estado |-> getEstadoFromApi(item.estadoEntrega),
      conductorId |-> idConductor,
      conductorNombre |-> conductorNombre,
      fechaEntrega |-> toDateOnly(orElse(item.fechaEntrega, JsNull))]

\* json.data.map(mapProgramacion)
mapReporte(rows) == [i \in 1..Len(rows) |-> mapProgramacionReporte(rows[i])]

\* The predicate of filteredProgramaciones that ignores the estado (mutant).
keepsItem_AnyEstado(item, estado, conductor) ==
  ~(conductor # <<"t", "o", "d", "o", "s">> /\ item.conductorId # Str(conductor))

\* The predicate of programaciones.filter(...) in filteredProgramaciones.
keepsItem(item, estado, conductor) ==
  IF estado # "todos" /\ item.estado # estado THEN FALSE
  ELSE IF conductor # <<"t", "o", "d", "o", "s">> /\ item.conductorId # Str(conductor) THEN FALSE
  ELSE TRUE

\* programaciones.filter(...)
RECURSIVE filterProgramaciones(_, _, _)
filterProgramaciones(list, estado, conductor) ==
  IF list = <<>> THEN <<>>
  ELSE (IF keepsItem(Head(list), estado, conductor) THEN <<Head(list)>> ELSE <<>>)
         \o filterProgramaciones(Tail(list), estado, conductor)

\* const filteredProgramaciones = useMemo(...)
filteredProgramaciones == filterProgramaciones(programaciones, rpEstado, rpConductor)

\* The texts 'sin-fecha' and '9999-12-31' of the charts.
SinFecha == <<"s", "i", "n", "-", "f", "e", "c", "h", "a">>
LastSortKey == IsoDate(9999, 12, 31)

\* { entregado: 0, en_proceso: 0, no_entregado: 0 }
zeroCounts == [e \in EstadoReporte |-> 0]

\* counts[estado] += 1
bump(counts, estado) == [counts EXCEPT ![estado] = @ + 1]

\* The index of the entry with that key, 0 when there is none.
indexOfKey(entries, key) ==
  IF \E i \in 1..Len(entries) : entries[i].key = key
  THEN CHOOSE i \in 1..Len(entries) : entries[i].key = key
  ELSE 0

\* The driverTotals step of the forEach that sets a new entry each time
\* (mutant).
upsertDriver_Overwrite(drivers, item) ==
  LET driverKey == IF item.conductorId = JsNull THEN item.conductorNombre ELSE item.conductorId.v
      deliveredIncrement == IF item.estado = "entregado" THEN 1 ELSE 0
      fresh == [key |-> driverKey, nombre |-> item.conductorNombre, total |-> 1,
                entregados |-> deliveredIncrement]
      i == indexOfKey(drivers, driverKey)
  IN IF i # 0 THEN [drivers EXCEPT ![i] = fresh] ELSE Append(drivers, fresh)

\* The driverTotals step of the forEach: driverTotals is a Map, kept here
\* as its entries in insertion order.
upsertDriver(drivers, item) ==
  LET driverKey == IF item.conductorId = JsNull THEN item.conductorNombre ELSE item.conductorId.v
      deliveredIncrement == IF item.estado = "entregado" THEN 1 ELSE 0
      i == indexOfKey(drivers, driverKey)
  IN IF i # 0
     THEN [drivers EXCEPT ![i] = [@ EXCEPT !.total = @ + 1,
                                           !.entregados = @ + deliveredIncrement]]
     ELSE Append(drivers, [key |-> driverKey, nombre |-> item.conductorNombre, total |-> 1,
                           entregados |-> deliveredIncrement])

\* The dateBuckets step of the forEach: dateBuckets is an object, kept here
\* as its entries in insertion order.
upsertBucket(buckets, item) ==
  LET dateKey == orElse(item.fechaEntrega, Str(SinFecha)).v
      created ==
        IF indexOfKey(buckets, dateKey) = 0
        THEN Append(buckets, [key |-> dateKey,
                              sortKey |-> orElse(item.fechaEntrega, Str(LastSortKey)).v,
                              counts |-> zeroCounts])
        ELSE buckets
      i == indexOfKey(created, dateKey)
  IN [created EXCEPT ![i] = [@ EXCEPT !.counts = bump(@, item.estado)]]

\* filteredProgramaciones.forEach(...)
RECURSIVE chartsForEach(_, _)
chartsForEach(list, acc) ==
  IF list = <<>> THEN acc
  ELSE chartsForEach(Tail(list),
         [statusTotals |-> bump(acc.statusTotals, Head(list).estado),
          driverTotals |-> upsertDriver(acc.driverTotals, Head(list)),
          dateBuckets |-> upsertBucket(acc.dateBuckets, Head(list))])

\* Object.keys(dateBuckets).sort(...): by sortKey, entries that compare
\* equal keep their order.
RECURSIVE insertBucket(_, _)
insertBucket(sorted, b) ==
  IF sorted = <<>> THEN <<b>>
  ELSE IF strLess(b.sortKey, Head(sorted).sortKey) THEN <<b>> \o sorted
  ELSE <<Head(sorted)>> \o insertBucket(Tail(sorted), b)
RECURSIVE sortBuckets(_)
sortBuckets(buckets) ==
  IF buckets = <<>> THEN <<>>
  ELSE insertBucket(sortBuckets(SubSeq(buckets, 1, Len(buckets) - 1)), buckets[Len(buckets)])

\* Array.from(driverTotals.values()).sort(...): more entregados first, then
\* the larger total.
driverBefore(a, b) ==
  IF b.entregados # a.entregados THEN b.entregados - a.entregados < 0
  ELSE b.total - a.total < 0
RECURSIVE insertDriver(_, _)
insertDriver(sorted, d) ==
  IF sorted = <<>> THEN <<d>>
  ELSE IF driverBefore(d, Head(sorted)) THEN <<d>> \o sorted
  ELSE <<Head(sorted)>> \o insertDriver(Tail(sorted), d)
RECURSIVE sortDrivers(_)
sortDrivers(drivers) ==
  IF drivers = <<>> THEN <<>>
  ELSE insertDriver(sortDrivers(SubSeq(drivers, 1, Len(drivers) - 1)), drivers[Len(drivers)])

\* const charts = useMemo(...): the numbers the three charts are given.
chartsOf(list) ==
  LET acc == chartsForEach(list, [statusTotals |-> zeroCounts, driverTotals |-> <<>>,
                                  dateBuckets |-> <<>>])
      statusTotals == acc.statusTotals
      sortedDateKeys == sortBuckets(acc.dateBuckets)
      hasDateData == Len(sortedDateKeys) > 0
      driverEntries == sortDrivers(acc.driverTotals)
      hasDeliveredData == \E i \in 1..Len(driverEntries) : driverEntries[i].entregados > 0
  IN [statusTotals |-> statusTotals,
      totalRegistros |-> statusTotals["entregado"] + statusTotals["en_proceso"]
                           + statusTotals["no_entregado"],
      stackedSeries |->
        [k \in 1..Len(ESTADO_ORDER) |->
           IF hasDateData
           THEN [i \in 1..Len(sortedDateKeys) |-> sortedDateKeys[i].counts[ESTADO_ORDER[k]]]
           ELSE <<0>>],
      donutSeries |-> [k \in 1..Len(ESTADO_ORDER) |-> statusTotals[ESTADO_ORDER[k]]],
      driverEntries |-> driverEntries,
      productividadData |->
        IF Len(driverEntries) > 0
        THEN [i \in 1..Len(driverEntries) |->
                IF hasDeliveredData THEN driverEntries[i].entregados ELSE driverEntries[i].total]
        ELSE <<0>>]

charts == chartsOf(filteredProgramaciones)

\* ------------------------------------------------------------------------
\* Reportes: the component
\* ------------------------------------------------------------------------

Todos == <<"t", "o", "d", "o", "s">>
\* type Estado
Estado == {"todos"} \cup EstadoReporte
\* The values of the conductor select: 'todos' and the ids of two drivers.
ConductorOptions == {Todos, <<"7">>, <<"8">>}

\* getLastMonthRange() and getCurrentMonthRange() on 2026-11-06.
getLastMonthRange == [desde |-> IsoDate(2026, 10, 1), hasta |-> IsoDate(2026, 10, 31)]
getCurrentMonthRange == [desde |-> IsoDate(2026, 11, 1), hasta |-> IsoDate(2026, 11, 30)]
initialRange == getLastMonthRange

\* What the user enters in the two date inputs: nothing, a date, and for
\* desde a date in the year 10000.
DesdeTexts == {<<>>, IsoDate(10000, 1, 1)}
HastaTexts == {<<>>, IsoDate(2026, 10, 31)}

\* The suspended call with that number, 0 when it has settled.
callIndexOf(calls, id) ==
  IF \E i \in 1..Len(calls) : calls[i].id = id
  THEN CHOOSE i \in 1..Len(calls) : calls[i].id = id
  ELSE 0

\* reportControllerRef.current?.abort()
abortCurrent(calls, ref) ==
  [i \in 1..Len(calls) |-> IF calls[i].id = ref THEN [calls[i] EXCEPT !.aborted = TRUE]
                           ELSE calls[i]]

\* Reportes mounts: useState(...), and with a token the effect that makes
\* the first fetchReport call for the initial range.
RepInit ==
  /\ rpToken \in {"", "token"}
  /\ rpEstado = "todos"
  /\ rpDesde = initialRange.desde
  /\ rpHasta = initialRange.hasta
  /\ rpConductor = Todos
  /\ programaciones = <<>>
  /\ reportError = Null
  /\ isLoadingReport = (rpToken # "")
  /\ rpCalls = IF rpToken # ""
               THEN <<[id |-> 1, range |-> initialRange, aborted |-> FALSE, pc |-> "fetch",
                       ok |-> FALSE]>>
               ELSE <<>>
  /\ reportControllerRef = (IF rpToken # "" THEN 1 ELSE 0)
  /\ initialFetchDoneRef = (rpToken # "")
  /\ rpCallCount = (IF rpToken # "" THEN 1 ELSE 0)
  /\ rpLastCall = (IF rpToken # "" THEN "sent" ELSE "none")

\* The test of the range that lets every range through (mutant).
rangeInOrder_Always(range) == TRUE

\* !(range.desde > range.hasta)
rangeInOrder(range) == ~strLess(range.hasta, range.desde)

\* const fetchReport = useCallback(async (range) => ...) up to its await.
fetchReport(range) ==
  IF rpToken = ""
  THEN /\ programaciones' = <<>>
       /\ reportError' = "No se encontro la sesion de usuario."
       /\ rpLastCall' = "noToken"
       /\ UNCHANGED <<isLoadingReport, rpCalls, reportControllerRef, rpCallCount>>
  ELSE IF range.desde = <<>> \/ range.hasta = <<>>
  THEN /\ reportError' = "Debes seleccionar la fecha inicial y final."
       /\ rpLastCall' = "missingDate"
       /\ UNCHANGED <<programaciones, isLoadingReport, rpCalls, reportControllerRef, rpCallCount>>
  ELSE IF ~rangeInOrder(range)
  THEN /\ reportError' = "La fecha inicial no puede ser mayor a la final."
       /\ rpLastCall' = "badOrder"
       /\ UNCHANGED <<programaciones, isLoadingReport, rpCalls, reportControllerRef, rpCallCount>>
  ELSE /\ rpCallCount < MaxReportCalls
       /\ rpCallCount' = rpCallCount + 1
       /\ rpCalls' = Append(abortCurrent(rpCalls, reportControllerRef),
                            [id |-> rpCallCount', range |-> range, aborted |-> FALSE,
                             pc |-> "fetch", ok |-> FALSE])
       /\ reportControllerRef' = rpCallCount'
       /\ isLoadingReport' = TRUE
       /\ reportError' = Null
       /\ rpLastCall' = "sent"
       /\ UNCHANGED programaciones

\* fetchReport at its first await: authorizedFetch resolves with the
\* response (its status line), and the body is awaited next.
reportResponded(j, ok) ==
  /\ UNCHANGED notRep
  /\ j \in 1..Len(rpCalls)
  /\ rpCalls[j].pc = "fetch" /\ ~rpCalls[j].aborted
  /\ rpCalls' = [rpCalls EXCEPT ![j] = [@ EXCEPT !.pc = "json", !.ok = ok]]
  /\ UNCHANGED <<rpToken, rpFilterVars, rpReportVars, reportControllerRef, rpCallCount,
                 rpLastCall, initialFetchDoneRef>>

\* Whether the call ends in the catch branch that returns at once: its
\* error is the AbortError of authorizedFetch. The AbortError of
\* response.json() is replaced by null and does not get there.
writesNothing(call) == call.aborted /\ call.pc = "fetch"

\* fetchReport to its end: authorizedFetch rejects (a network failure, or
\* the AbortError of a controller that was aborted), or the body has been
\* read, or reading it was aborted; then the finally block.
reportSettled(j, outcome, rows) ==
  /\ UNCHANGED notRep
  /\ j \in 1..Len(rpCalls)
  /\ rpCalls' = SubSeq(rpCalls, 1, j - 1) \o SubSeq(rpCalls, j + 1, Len(rpCalls))
  /\ IF writesNothing(rpCalls[j])
     THEN outcome = "thrown" /\ rows = <<>> /\ UNCHANGED <<programaciones, reportError>>
     ELSE IF rpCalls[j].pc = "fetch"
     THEN /\ outcome = "thrown" /\ rows = <<>>
          /\ programaciones' = <<>>
          /\ reportError' = "Failed to fetch"
     ELSE IF rpCalls[j].aborted
     THEN /\ outcome = "rejected" /\ rows = <<>>
          /\ programaciones' = <<>>
          /\ reportError' = "No se pudo obtener el reporte (status)."
     ELSE CASE outcome = "ok" ->
                 /\ rpCalls[j].ok
                 /\ programaciones' = mapReporte(rows)
                 /\ UNCHANGED reportError
            [] outcome = "sinData" ->
                 /\ rpCalls[j].ok
                 /\ rows = <<>>
                 /\ programaciones' = <<>>
                 /\ UNCHANGED reportError
            [] outcome = "rejected" ->
                 /\ rows = <<>>
                 /\ programaciones' = <<>>
                 /\ reportError' = "No se pudo obtener el reporte (status)."
            [] OTHER -> FALSE
  /\ isLoadingReport' = FALSE
  /\ UNCHANGED <<rpToken, rpFilterVars, reportControllerRef, rpCallCount, rpLastCall,
                 initialFetchDoneRef>>

\* <Select value={estado} onChange={(e) => setEstado(e.target.value)}>
rpSetEstado(value) ==
  /\ UNCHANGED notRep
  /\ rpEstado' = value
  /\ UNCHANGED <<rpToken, rpDesde, rpHasta, rpConductor, rpReportVars, rpCallVars,
                 initialFetchDoneRef>>

\* <Select value={conductor} onChange={(e) => setConductor(e.target.value)}>
setConductor(value) ==
  /\ UNCHANGED notRep
  /\ rpConductor' = value
  /\ UNCHANGED <<rpToken, rpEstado, rpDesde, rpHasta, rpReportVars, rpCallVars,
                 initialFetchDoneRef>>

\* <TextInput type="date" value={desde} onChange={(e) => setDesde(e.target.value)}>
\* The effect that depends on desde returns at once: initialFetchDoneRef is
\* set, or there is no token.
rpSetDesde(value) ==
  /\ UNCHANGED notRep
  /\ rpDesde' = value
  /\ UNCHANGED <<rpToken, rpEstado, rpHasta, rpConductor, rpReportVars, rpCallVars,
                 initialFetchDoneRef>>

\* <TextInput type="date" value={hasta} onChange={(e) => setHasta(e.target.value)}>
rpSetHasta(value) ==
  /\ UNCHANGED notRep
  /\ rpHasta' = value
  /\ UNCHANGED <<rpToken, rpEstado, rpDesde, rpConductor, rpReportVars, rpCallVars,
                 initialFetchDoneRef>>

\* const handleApplyFilters; the button is disabled while isLoadingReport
\* and while a date is empty.
handleApplyFilters ==
  /\ UNCHANGED notRep
  /\ ~isLoadingReport /\ rpDesde # <<>> /\ rpHasta # <<>>
  /\ fetchReport([desde |-> rpDesde, hasta |-> rpHasta])
  /\ UNCHANGED <<rpToken, rpFilterVars, initialFetchDoneRef>>

\* const handleApplyShortcutRange = (range) => ...
handleApplyShortcutRange(range) ==
  /\ UNCHANGED notRep
  /\ rpDesde' = range.desde
  /\ rpHasta' = range.hasta
  /\ fetchReport(range)
  /\ UNCHANGED <<rpToken, rpEstado, rpConductor, initialFetchDoneRef>>

\* const handleSelectCurrentMonth / handleSelectPreviousMonth
handleSelectCurrentMonth == handleApplyShortcutRange(getCurrentMonthRange)
handleSelectPreviousMonth == handleApplyShortcutRange(getLastMonthRange)

\* const handleResetFilters; the button is disabled while isLoadingReport.
handleResetFilters ==
  /\ UNCHANGED notRep
  /\ ~isLoadingReport
  /\ rpEstado' = "todos"
  /\ rpConductor' = Todos
  /\ rpDesde' = initialRange.desde
  /\ rpHasta' = initialRange.hasta
  /\ fetchReport(initialRange)
  /\ UNCHANGED <<rpToken, initialFetchDoneRef>>

\* The responses of a call: with rows, or one of the failures.
reportAnswered(j, answers) ==
  \/ \E rows \in answers : reportSettled(j, "ok", rows)
  \/ \E outcome \in {"sinData", "rejected", "thrown"} : reportSettled(j, outcome, <<>>)

\* The date range and the requests: the date inputs, the buttons, and
\* responses of at most one row.
RepNext ==
  \/ \E j \in 1..MaxReportCalls, ok \in BOOLEAN : reportResponded(j, ok)
  \/ \E j \in 1..MaxReportCalls :
        reportAnswered(j, {rows \in ReporteAnswers : Len(rows) <= 1})
  \/ \E value \in DesdeTexts : rpSetDesde(value)
  \/ \E value \in HastaTexts : rpSetHasta(value)
  \/ handleApplyFilters
  \/ \E range \in {getCurrentMonthRange, getLastMonthRange} : handleApplyShortcutRange(range)
  \/ handleResetFilters

\* The charts: every response, the estado and conductor selects, and the
\* Aplicar button that loads the report again.
ChartsNext ==
  \/ \E j \in 1..MaxReportCalls, ok \in BOOLEAN : reportResponded(j, ok)
  \/ \E j \in 1..MaxReportCalls : reportAnswered(j, ReporteAnswers)
  \/ \E value \in Estado : rpSetEstado(value)
  \/ \E value \in ConductorOptions : setConductor(value)
  \/ handleApplyFilters

\* ------------------------------------------------------------------------
\* Claims about Reportes
\* ------------------------------------------------------------------------

RECURSIVE sumSeq(_)
sumSeq(numbers) == IF numbers = <<>> THEN 0 ELSE Head(numbers) + sumSeq(Tail(numbers))

\* C15: the aggregation counts every filtered programacion once in each
\* grouping: totalRegistros is the number of filtered programaciones and
\* the sum of the donut series; for each estado the stacked series sums,
\* over the date buckets, to statusTotals of that estado; and the totals of
\* the drivers sum to totalRegistros. Stated of every loaded list and every
\* setting of the estado and conductor filters.
C15_ChartsCountEachOnce ==
  /\ charts.totalRegistros = Len(filteredProgramaciones)
  /\ charts.totalRegistros = sumSeq(charts.donutSeries)
  /\ \A k \in 1..Len(ESTADO_ORDER) :
       sumSeq(charts.stackedSeries[k]) = charts.statusTotals[ESTADO_ORDER[k]]
  /\ sumSeq([i \in 1..Len(charts.driverEntries) |-> charts.driverEntries[i].total])
       = charts.totalRegistros

\* A filter is set, and the two programaciones it keeps fall on the same
\* day and belong to the same driver.
C15_Witness ==
  /\ rpConductor # Todos
  /\ \E i \in 1..Len(charts.driverEntries) : charts.driverEntries[i].total >= 2
  /\ \E k \in 1..Len(ESTADO_ORDER) : 
       /\ charts.statusTotals[ESTADO_ORDER[k]] = 1
       /\ Len(charts.stackedSeries[k]) = 1
  /\ charts.totalRegistros = 2

\* The positions of the loaded programaciones that the selected estado and
\* conductor admit.
admittedPositions ==
  {i \in 1..Len(programaciones) :
     /\ rpEstado = "todos" \/ programaciones[i].estado = rpEstado
     /\ rpConductor = Todos \/ programaciones[i].conductorId = Str(rpConductor)}

\* A step of one of the two selects.
filterChanged ==
  \/ \E value \in Estado : rpSetEstado(value)
  \/ \E value \in ConductorOptions : setConductor(value)

\* C16: filteredProgramaciones is the sub-list, in the original order, of
\* the loaded programaciones whose estado is the selected one (any when
\* 'todos') and whose conductorId is the selected conductor (any when
\* 'todos'); a change of the estado or conductor select sends no request
\* and leaves the loaded programaciones as they are.
C16_FiltersExactClientSide ==
  /\ [](/\ Len(filteredProgramaciones) = Cardinality(admittedPositions)
        /\ \A i \in admittedPositions :
             filteredProgramaciones[Cardinality({k \in admittedPositions : k <= i})]
               = programaciones[i])
  /\ [][filterChanged => UNCHANGED <<programaciones, rpCalls, rpCallCount,
                                     reportControllerRef, isLoadingReport>>]_vars

\* Both selects are set, some but not all of the loaded programaciones pass,
\* and a report request is in flight.
C16_Witness ==
  /\ rpEstado # "todos" /\ rpConductor # Todos
  /\ Len(filteredProgramaciones) > 0
  /\ Len(filteredProgramaciones) < Len(programaciones)
  /\ rpCalls # <<>>

\* The year, month and day of a date text, as numbers.
dateParts(cs) == [k \in 1..3 |-> digitsToNat(splitDash(cs)[k], 0)]

\* Whether date a is later than date b.
laterDate(a, b) ==
  LET x == dateParts(a)
      y == dateParts(b)
  IN \/ x[1] > y[1]
     \/ x[1] = y[1] /\ x[2] > y[2]
     \/ x[1] = y[1] /\ x[2] = y[2] /\ x[3] > y[3]

\* A step of a handler that calls fetchReport; the range it passes is the
\* one the date inputs show after the step.
callsFetchReport ==
  \/ handleApplyFilters
  \/ \E range \in {getCurrentMonthRange, getLastMonthRange} : handleApplyShortcutRange(range)
  \/ handleResetFilters

\* C17: fetchReport sends the request only when there is a token, both
\* dates are non-empty and desde is not later than hasta; with a token and
\* a date missing or desde later than hasta it sets reportError, sends no
\* request, aborts no request in flight and leaves programaciones as they
\* are; without a token it clears programaciones and sets reportError.
C17_ReportRequestGuard ==
  [][callsFetchReport =>
       /\ rpCallCount' > rpCallCount =>
            /\ rpToken # ""
            /\ rpDesde' # <<>> /\ rpHasta' # <<>>
            /\ ~laterDate(rpDesde', rpHasta')
       /\ (rpToken # "" /\ (rpDesde' = <<>> \/ rpHasta' = <<>>)) =>
            /\ reportError' = "Debes seleccionar la fecha inicial y final."
            /\ UNCHANGED <<rpCalls, rpCallCount, programaciones>>
       /\ (rpToken # "" /\ rpDesde' # <<>> /\ rpHasta' # <<>> /\ laterDate(rpDesde', rpHasta')) =>
            /\ reportError' = "La fecha inicial no puede ser mayor a la final."
            /\ UNCHANGED <<rpCalls, rpCallCount, programaciones>>
       /\ rpToken = "" =>
            /\ programaciones' = <<>>
            /\ reportError' = "No se encontro la sesion de usuario."
            /\ UNCHANGED <<rpCalls, rpCallCount>>]_vars

\* ------------------------------------------------------------------------
\* Reportes: the percentages
\* ------------------------------------------------------------------------

\* Records of one estado in a report.
MaxCount == 8

\* Math.round(numerator / denominator), for numerator >= 0 and
\* denominator > 0: the nearest integer, a half rounded up.
mathRound(numerator, denominator) == (2 * numerator + denominator) \div (2 * denominator)

\* totalRegistros ? Math.round((count / totalRegistros) * 100) : 0
porcentaje(count, totalRegistros) ==
  IF totalRegistros # 0 THEN mathRound(count * 100, totalRegistros) ELSE 0

\* const totalRegistros / porcentajeEntregado / porcentajeAtrasos of charts
porcentajesOf(statusTotals) ==
  LET totalRegistros == statusTotals["entregado"] + statusTotals["en_proceso"]
                          + statusTotals["no_entregado"]
  IN [totalRegistros |-> totalRegistros,
      porcentajeEntregado |-> porcentaje(statusTotals["entregado"], totalRegistros),
      porcentajeAtrasos |-> porcentaje(statusTotals["no_entregado"], totalRegistros)]

\* The statusTotals of some report.
PctInit ==
  /\ pcTotals \in [EstadoReporte -> 0..MaxCount]
  /\ pcShown = NoPorcentajes

\* charts is computed for those statusTotals.
computePorcentajes ==
  /\ UNCHANGED notPct
  /\ pcShown = NoPorcentajes
  /\ pcShown' = porcentajesOf(pcTotals)
  /\ UNCHANGED pcTotals

\* Another report is loaded: the numbers are computed anew.
nextReport ==
  /\ UNCHANGED notPct
  /\ pcShown # NoPorcentajes
  /\ pcTotals' \in [EstadoReporte -> 0..MaxCount]
  /\ pcShown' = NoPorcentajes

PctNext ==
  \/ computePorcentajes
  \/ nextReport

\* C21: for every count of entregado, en_proceso and no_entregado records
\* the two percentages are integers from 0 to 100, both are 0 when there
\* are no records, and their sum does not exceed 100.
C21_PercentagesConsistent ==
  pcShown # NoPorcentajes =>
    /\ pcShown.porcentajeEntregado \in 0..100
    /\ pcShown.porcentajeAtrasos \in 0..100
    /\ pcShown.totalRegistros = 0 =>
         pcShown.porcentajeEntregado = 0 /\ pcShown.porcentajeAtrasos = 0
    /\ pcShown.porcentajeEntregado + pcShown.porcentajeAtrasos <= 100

\* ------------------------------------------------------------------------
\* Claims about the redirects of the guard
\* ------------------------------------------------------------------------

\* C22: the role guard does not redirect in a loop: for an authenticated
\* user the path a guarded route redirects to renders a page for that user
\* ('/menu/reportes' for an administrador, '/menu/entregas' for a
\* conductor, the unguarded '/inicio' otherwise), so a page is on display
\* after at most one redirect.
C22_NoRedirectLoop ==
  /\ [](auth.isAuthenticated =>
          /\ \A i \in 1..Len(Router) :
               LET rendered == renderRoute(auth, Router[i].path) IN
               (Router[i].el = "guard" /\ rendered.kind = "redirect") =>
                 renderRoute(auth, rendered.to).kind = "page"
          /\ redirects <= 1
          /\ redirects = 1 => view.kind = "page")
  /\ [][(auth.isAuthenticated /\ FollowRedirect) => view'.kind = "page"]_vars

\* A conductor opened an administrator's page and, one redirect later, is
\* shown the page of a route that admits conductors.
C22_Witness ==
  /\ auth.isAuthenticated /\ auth.roleName = "conductor"
  /\ redirects = 1
  /\ matchRoute(location).el = "guard"
  /\ view.kind = "page"

\* ------------------------------------------------------------------------
\* Claims about superseded requests
\* ------------------------------------------------------------------------

\* The end of a fetchReport call made before the most recent one.
supersededSettled ==
  \E j \in 1..MaxReportCalls, outcome \in {"ok", "sinData", "rejected", "thrown"},
     rows \in ReporteAnswers :
    /\ reportSettled(j, outcome, rows)
    /\ rpCalls[j].id # rpCallCount

\* C23, for Reportes: once a newer report request has been started, the
\* response or failure of the older one changes neither the loaded
\* programaciones nor the error message.
C23_LatestRequestWins ==
  [][supersededSettled => UNCHANGED <<programaciones, reportError>>]_vars

\* C24: isLoadingReport is true whenever a report request that has not
\* been aborted is in flight, whatever the order of the clicks on Aplicar,
\* Limpiar, Mes actual and Mes anterior and of the ends of the requests.
C24_LoadingWhileInFlight ==
  (\E j \in 1..Len(rpCalls) : ~rpCalls[j].aborted) => isLoadingReport

\* C25, for Dispositivos: the loading flag is false whenever no list request
\* of the screen is in flight, after every sequence of parameter changes,
\* aborted requests, page corrections and token changes.
C25_LoadingOnlyWhileInFlight ==
  mounted("dispositivos") => (~dvFetch.live => ~dvLoading)

\* C26: the out-of-range page correction terminates. A response that makes
\* the list effect of Dispositivos or of ProgramarSalida ask again asks for
\* a page strictly smaller than the one it had asked for, and when every
\* request is answered a list request in flight leads to a state with no
\* list request in flight: the list or an error is on the screen.
C26_CorrectionTerminates ==
  /\ [][/\ (dvFetch.live /\ dvFetch'.live /\ page' # page /\ dvToken' = dvToken)
             => page' < dvFetch.page /\ dvFetch'.page = page'
        /\ (psFetch.live /\ psFetch'.live /\ pedidosPage' # pedidosPage)
             => pedidosPage' < psFetch.page /\ psFetch'.page = pedidosPage']_vars
  /\ (mounted("dispositivos") /\ dvFetch.live) ~> ~dvFetch.live
  /\ (mounted("programar-salida") /\ psFetch.live) ~> ~psFetch.live

\* C26 witness: page 1 of 2 is on the screen and is being requested again;
\* within the bounds only the correction of a request for page 2 that was
\* answered with totalPages = 2 leads here.
C26_Witness ==
  /\ mounted("dispositivos")
  /\ dvFetch = [live |-> TRUE, page |-> 1]
  /\ page = 1 /\ totalPages = 2 /\ ~isFirstPage

\* C27, for Dispositivos: while a DELETE for a device is in flight the delete
\* control of that device is disabled (deletingId is the device's id), and
\* no two calls of handleEliminarDispositivo for the same device are in
\* flight together, whatever deletions of other devices start or finish.
C27_DeleteControlDisabled ==
  /\ \A j \in 1..Len(dvDeletes) : deletingId = dvDeletes[j].dispositivo.id
  /\ \A j, k \in 1..Len(dvDeletes) :
       j # k => dvDeletes[j].dispositivo.id # dvDeletes[k].dispositivo.id

\* C28: after handleDelete has completed successfully for a programacion
\* the edit form is not open for it, also when the form was opened for it
\* while its DELETE was in flight.
C28_NoEditFormForDeleted ==
  [][\A j \in 1..Len(pmDeletes) :
       deleteSettled(j, "ok") =>
         \/ editingProgramacion' = NoProgramacion
         \/ editingProgramacion'.id # pmDeletes[j].id]_vars

\* ------------------------------------------------------------------------
\* The meaning of estadoEntrega in the monitoring panel and in the report
\* ------------------------------------------------------------------------

\* Programaciones whose status is followed.
MaxEstados == 2

\* The estadoEntrega values a programacion may hold.
EstadoEntregaValues == {JsNull} \cup {Num(n) : n \in 0..3}

\* const mapProgramacionEstado = (estado: number | null) => { switch (estado) ... }
mapProgramacionEstado(estado) ==
  CASE estado = Num(0) -> [label |-> "En proceso", badge |-> "lightwarning"]
    [] estado = Num(2) -> [label |-> "Entregado", badge |-> "lightsuccess"]
    [] estado = Num(3) -> [label |-> "No entregado", badge |-> "lightsecondary"]
    [] OTHER -> [label |-> "Sin estado", badge |-> "lightsecondary"]

\* const ESTADO_INFO: Record<EstadoReporte, { label: string; color: string }>
ESTADO_INFO ==
  [entregado |-> [label |-> "Entregado"],
   en_proceso |-> [label |-> "En proceso"],
   no_entregado |-> [label |-> "No entregado"]]

\* Nothing is displayed yet.
NoEstados == [pending |-> TRUE, rows |-> <<>>]

\* The programaciones the backend holds when the screens are opened.
EstInit ==
  /\ esRows \in UNION {[1..n -> [estadoEntrega : EstadoEntregaValues, chosen : {"none"}]] :
                         n \in 0..MaxEstados}
  /\ esShown = NoEstados

\* guardarProgramacion stores a new programacion: estadoEntrega: 1 in its
\* programacionPayload.
programacionCreada ==
  /\ UNCHANGED notEst
  /\ Len(esRows) < MaxEstados
  /\ esRows' = Append(esRows, [estadoEntrega |-> Num(1), chosen |-> "none"])
  /\ esShown' = NoEstados

\* The observation form is submitted for programacion k with the estado
\* chosen in its select: estadoEntrega: mapEstadoToValue(estado) in the payload.
observacionRegistrada(k, e) ==
  /\ UNCHANGED notEst
  /\ k \in 1..Len(esRows)
  /\ esRows[k].chosen # e
  /\ esRows' = [esRows EXCEPT ![k] = [estadoEntrega |-> Num(mapEstadoToValue(e)), chosen |-> e]]
  /\ esShown' = NoEstados

\* Both screens load the programaciones and render them: the badge of the
\* panel's row and the estado the report counts the row under.
renderEstados ==
  /\ UNCHANGED notEst
  /\ esShown.pending
  /\ esShown' =
       [pending |-> FALSE,
        rows |-> [k \in 1..Len(esRows) |->
                    [panel |-> mapProgramacionEstado(parseNumber(esRows[k].estadoEntrega)).label,
                     reporte |-> getEstadoFromApi(esRows[k].estadoEntrega)]]]
  /\ UNCHANGED esRows

EstNext ==
  \/ programacionCreada
  \/ \E k \in 1..MaxEstados, e \in EstadoEntregaSelect : observacionRegistrada(k, e)
  \/ renderEstados

\* C29: the two screens agree on estadoEntrega. The panel labels a
\* programacion Entregado, No entregado or En proceso exactly when the
\* report classifies it as entregado, no_entregado or en_proceso, and a
\* programacion whose observation was marked Entregado or No Entregado is
\* displayed by both screens with that status.
C29_ScreensAgreeOnEstado ==
  ~esShown.pending =>
    \A k \in 1..Len(esRows) :
      LET row == esShown.rows[k] IN
      /\ \A estado \in DOMAIN ESTADO_INFO :
           row.panel = ESTADO_INFO[estado].label <=> row.reporte = estado
      /\ esRows[k].chosen = "Entregado" => row.panel = "Entregado" /\ row.reporte = "entregado"
      /\ esRows[k].chosen = "No Entregado" =>
           row.panel = "No entregado" /\ row.reporte = "no_entregado"

\* ------------------------------------------------------------------------
\* Specifications
\* ------------------------------------------------------------------------

\* The routing state when another screen is the one being exercised: an
\* administrador on /menu/programar-salida.
RouteAtRest ==
  /\ auth = [isAuthenticated |-> TRUE, roleName |-> "administrador"]
  /\ location = <<"menu", "programar-salida">>
  /\ view = renderRoute(auth, location)
  /\ shown = {}
  /\ redirects = 0
  /\ navCalls = <<>>

\* The ProgramarSalida state while the screen is not mounted.
ProgAtRest ==
  /\ psToken = "" /\ psUserId = JsNull /\ fechaEntrega = today
  /\ vehiculoId = Str(<<>>) /\ conductorId = Str(<<>>)
  /\ vehiculos = <<>> /\ conductores = <<>> /\ pedidos = <<>>
  /\ pedidosPage = 0 /\ pedidosSize = PEDIDOS_PAGE_SIZES[2]
  /\ pedidosTotalPages = 0 /\ pedidosTotalElements = 0
  /\ isLoadingPedidos = FALSE /\ pedidosError = Null /\ esUltimaPaginaPedidos = TRUE
  /\ psIsSubmitting = FALSE /\ psSubmitError = Null /\ psSubmitSuccess = Null
  /\ psFetch = NoFetch /\ psDisponibles = NoFetch /\ psCall = Idle
  /\ psBackend = {} /\ psRequests = {}

\* The Dispositivos state while the screen is not mounted.
DispAtRest ==
  /\ dvToken = "" /\ query = <<>> /\ searchTerm = <<"a", "l", "l">> /\ reloadKey = 0
  /\ dispositivos = <<>> /\ selectedDispositivo = NoDispositivo
  /\ dvLoading = FALSE /\ dvError = Null /\ page = 0 /\ size = PAGE_SIZES[2]
  /\ totalElements = 0 /\ totalPages = 0 /\ isFirstPage = TRUE /\ isLastPage = TRUE
  /\ dvFetch = NoFetch /\ nuevoCodigo = <<>> /\ nuevoModelo = <<>>
  /\ dvIsSubmitting = FALSE /\ dvSubmitError = Null /\ dvSubmitSuccess = Null
  /\ dvCall = NoCall /\ deletingId = JsNull /\ deleteFeedback = NoFeedback
  /\ dvDeletes = <<>> /\ traccar = {} /\ dvBackend = {} /\ dvRequests = {}

\* The PanelMonitoreo state while the screen is not mounted.
PanelAtRest ==
  /\ pmToken = "" /\ nro = <<>> /\ pmDesde = <<>> /\ pmHasta = <<>>
  /\ searchParams = [nro |-> <<>>, desde |-> <<>>, hasta |-> <<>>]
  /\ items = <<>> /\ pmLoading = FALSE /\ pmError = Null
  /\ editingProgramacion = NoProgramacion /\ editFecha = <<>> /\ editSubmitting = FALSE
  /\ deleteInProgress = JsNull /\ mutationError = Null /\ actionStatus = NoStatus
  /\ pmFetch = NoFetch /\ pmEdit = Idle /\ pmDeletes = <<>> /\ pmDeleteDone = "none"
  /\ pmBackend = <<>>

\* The EntregaObservacion state while the screen is not mounted.
ObsAtRest ==
  /\ eoConductorId = JsNull /\ salidaDetalleId = <<>>
  /\ observacion = <<>> /\ eoEstado = "No Entregado" /\ isSubmitting = FALSE
  /\ eoMounted = FALSE /\ eoInstance = 0 /\ eoCalls = <<>> /\ eoNavigated = "none"

\* The Reportes state while the screen is not mounted.
RepAtRest ==
  /\ rpToken = "" /\ rpEstado = "todos" /\ rpDesde = <<>> /\ rpHasta = <<>>
  /\ rpConductor = <<>> /\ programaciones = <<>> /\ isLoadingReport = FALSE
  /\ reportError = Null /\ rpCalls = <<>> /\ reportControllerRef = 0
  /\ initialFetchDoneRef = FALSE /\ rpCallCount = 0 /\ rpLastCall = "none"

\* No percentages are being computed.
PctAtRest == pcTotals = zeroCounts /\ pcShown = NoPorcentajes

\* No programacion is followed by the status comparison.
EstAtRest == esRows = <<>> /\ esShown = NoEstados

\* Initial states: the router is exercised, the components are not mounted.
InitRoute == RouteInit /\ ProgAtRest /\ DispAtRest /\ PanelAtRest /\ ObsAtRest /\ RepAtRest /\ PctAtRest /\ EstAtRest

SpecRoute == InitRoute /\ [][RouteNext]_vars

\* Initial states: ProgramarSalida is mounted.
InitProg == ProgInit /\ RouteAtRest /\ DispAtRest /\ PanelAtRest /\ ObsAtRest /\ RepAtRest /\ PctAtRest /\ EstAtRest

SpecProg == InitProg /\ [][ProgNext]_vars

\* Initial states: Dispositivos is mounted.
InitDisp == DispInit /\ RouteAtRest /\ ProgAtRest /\ PanelAtRest /\ ObsAtRest /\ RepAtRest /\ PctAtRest /\ EstAtRest

SpecDisp == InitDisp /\ [][DispNext]_vars

\* Initial states: Dispositivos is mounted and two devices were registered
\* earlier, in Traccar and in the backend.
InitDeletes ==
  /\ DispInitWith({[id |-> 1, alive |-> TRUE], [id |-> 2, alive |-> TRUE]},
                  {RegisteredDevice(1), RegisteredDevice(2)})
  /\ RouteAtRest /\ ProgAtRest /\ PanelAtRest /\ ObsAtRest /\ RepAtRest /\ PctAtRest /\ EstAtRest

SpecDeletes == InitDeletes /\ [][DeletesNext]_vars

\* Initial states: PanelMonitoreo is mounted.
InitPanel == PanelInit /\ RouteAtRest /\ ProgAtRest /\ DispAtRest /\ ObsAtRest /\ RepAtRest /\ PctAtRest /\ EstAtRest

SpecPanel == InitPanel /\ [][PanelNext]_vars

SpecPanelSearch == InitPanel /\ [][PanelSearchNext]_vars

\* Initial states: an administrador is on Dispositivos or on ProgramarSalida,
\* and that screen is mounted.
InitLists ==
  /\ auth = [isAuthenticated |-> TRUE, roleName |-> "administrador"]
  /\ location \in {<<"menu", "dispositivos">>, <<"menu", "programar-salida">>}
  /\ view = renderRoute(auth, location)
  /\ shown = {}
  /\ redirects = 0
  /\ navCalls = <<>>
  /\ IF mounted("dispositivos") THEN DispInit /\ ProgAtRest ELSE ProgInit /\ DispAtRest
  /\ PanelAtRest
  /\ ObsAtRest
  /\ RepAtRest
  /\ PctAtRest /\ EstAtRest

SpecLists == InitLists /\ [][ListsNext]_vars

\* The paginated lists when every list request that stays in flight is
\* answered in the end.
SpecListsFair ==
  InitLists /\ [][ListsNext]_vars /\ WF_vars(dispositivosAnswered) /\ WF_vars(pedidosAnswered)

\* The observation form: a conductor has opened it for a delivered product.
InitObs == ObsInit /\ RouteAtRest /\ ProgAtRest /\ DispAtRest /\ PanelAtRest /\ RepAtRest /\ PctAtRest /\ EstAtRest

SpecObs == InitObs /\ [][ObsNext]_vars

\* The reports screen: an administrador has opened it.
InitRep == RepInit /\ RouteAtRest /\ ProgAtRest /\ DispAtRest /\ PanelAtRest /\ ObsAtRest /\ PctAtRest /\ EstAtRest

SpecReportes == InitRep /\ [][RepNext]_vars

SpecCharts == InitRep /\ [][ChartsNext]_vars

\* The percentages for every statusTotals of at most MaxCount records each.
InitPct ==
  /\ PctInit /\ RouteAtRest /\ ProgAtRest /\ DispAtRest /\ PanelAtRest /\ ObsAtRest
  /\ RepAtRest /\ EstAtRest

SpecPorcentajes == InitPct /\ [][PctNext]_vars

\* Initial states: the backend holds some programaciones, none displayed yet.
InitEst ==
  /\ EstInit /\ RouteAtRest /\ ProgAtRest /\ DispAtRest /\ PanelAtRest /\ ObsAtRest
  /\ RepAtRest /\ PctAtRest

SpecEstados == InitEst /\ [][EstNext]_vars

====
